---- MODULE Spec2Model ----
(***************************************************************************)
(* State-machine models of the QB_02 components:                           *)
(*   W201b-web_crawler : RateLimiter, AmazonScraper, RequestsAmazonScraper *)
(*   W601              : CodeExecutor (kernel path and restricted path)    *)
(*   W301-pdf-rag      : PDFRAGPipeline.query / ingest_pdf                 *)
(* Each component has its own variables, initial condition, actions and    *)
(* specification; a component's specification leaves the variables of the  *)
(* other components at their initial values.                               *)
(***************************************************************************)
EXTENDS Integers, Sequences, FiniteSets, TLC

VARIABLES
    \* ---- RateLimiter (utils/delay.py) ----
    rl_max,        \* self.max_requests
    rl_requests,   \* self.requests: list of recorded timestamps
    rl_clock,      \* asyncio event-loop time, in tenths of a second
    rl_pc,         \* "idle" | "sleeping": position of the acquire() coroutine
    rl_now,        \* local `now` of the running acquire()
    rl_sleep,      \* local `sleep_time` of the running acquire()
    rl_ticked,     \* the caller already let time pass since the last call
    rl_log         \* one record [at, ret] per acquire() that has returned

VARIABLES
    \* ---- AmazonScraper / RequestsAmazonScraper .scrape_reviews ----
    scr_path,      \* "browser" (AmazonScraper) | "http" (RequestsAmazonScraper)
    scr_coe,       \* config.error_handling.continue_on_error
    scr_maxruns,   \* how many times the caller invokes scrape_reviews
    scr_run,       \* number of the current invocation
    scr_pc,        \* "idle" | "search" | "loop" | "done" | "raised"
    scr_criteria,  \* the SearchCriteria argument
    scr_nprod,     \* len(products)
    scr_idx,       \* 1-based index of the next product of the loop
    scr_all,       \* all_reviews
    scr_remaining, \* remaining_reviews (HTTP path)
    scr_processed, \* total_processed (browser path)
    scr_errors,    \* self.errors
    scr_result,    \* the ScrapingResult returned, or None
    scr_exc,       \* the exception raised to the caller, or None
    scr_attempted, \* products whose scraping was started in this invocation
    scr_failed,    \* products whose scraping raised in this invocation
    scr_seen       \* reviews extracted from pages in this invocation, before filtering

VARIABLES
    \* ---- CodeExecutor / JupyterCodeExecutor / SimpleCodeExecutor .execute ----
    ex_pc,         \* position of the running CodeExecutor.execute
    ex_code,       \* how the submitted code behaves when it is run
    ex_use_jupyter,\* self._use_jupyter (JUPYTER_AVAILABLE at construction)
    ex_sigalrm,    \* hasattr(signal, 'SIGALRM') on this platform
    ex_main,       \* execute runs in the interpreter's main thread
    ex_timeout,    \* self.timeout, in seconds
    ex_kernel,     \* "none" | "running" | "down": the kernel of this call
    ex_client,     \* "none" | "open" | "stopped": the kernel client's channels
    ex_tmp,        \* "none" | "exists" | "deleted": the pickled-table temp file
    ex_setup,      \* what the kernel reported for the data-injection snippet
    ex_kout,       \* what the kernel reported for the submitted code
    ex_harvest,    \* what the kernel reported for the result-harvesting snippet
    ex_jres,       \* result dict of JupyterCodeExecutor.execute, or None
    ex_alarm,      \* second at which the pending SIGALRM fires; 0: none pending
    ex_elapsed,    \* seconds the exec() of the restricted path has been running
    ex_simple,     \* SimpleCodeExecutor.execute was invoked
    ex_result      \* result dict returned by CodeExecutor.execute, or None

VARIABLES
    \* ---- AmazonScraper used as `async with AmazonScraper(config) as s` ----
    sc_pc,         \* position in the scope: "out" | "context" | "route" | "body" | ...
    sc_n,          \* number of scopes entered so far (a new scraper each time)
    sc_browser,    \* "none" | "open" | "closed": self.browser
    sc_context,    \* "none" | "open" | "closed": self.context
    sc_exc,        \* exception raised by the body of the scope, or None
    sc_errors,     \* self.errors
    sc_log         \* one record per scope left: resources and propagating exception

VARIABLES
    \* ---- PDFRAGPipeline.query ----
    q_pc,          \* position of the running query()
    q_args,        \* the keyword arguments of the call
    q_sub_queries, \* sub_queries returned by query_decomposition
    q_sub_answers, \* sub_answers collected so far
    q_decomp_ran,  \* the decomposition branch (l.165-186) was entered
    q_fusion_ran,  \* rag_fusion was called (l.190-192)
    q_llm,         \* where the synthesis call failed, or "ok"
    q_result,      \* the dict returned by query(), or None
    q_exc          \* the exception query() raised, or None

VARIABLES
    \* ---- PDFRAGPipeline.ingest_pdf ----
    ing_calls,     \* number of ingest_pdf calls made
    ing_pdf,       \* the PDF of the last call: units of each kind it contains
    ing_flags,     \* process_images / process_tables arguments of the last call
    ing_result,    \* the dict the last call returned, or None
    ing_exc,       \* the exception the last call raised, or None
    ing_embeds,    \* number of batch_embed calls made so far
    ing_index      \* the index: None until created, then Some(documents)

VARIABLES
    \* ---- one call of a function of W301-pdf-rag (embedding, reranking, ----
    \* ---- answer generation, retrieval) or of the HTTP scraper's _get_page ----
    fr_pc,         \* position in the function body; "idle" before the call
    fr_args,       \* the arguments (and the environment the call reads)
    fr_locals,     \* the local variables of the running call
    fr_ret         \* what the call returned or raised, or None

VARIABLES
    \* ---- LangChainRAG (W501/langchain_rag.py) and its persist directory ----
    rag_disk,        \* the persist directory: whether it exists, the saved index, the saved count
    rag_vectorstore, \* self.vectorstore: None, or Some(number of chunks it holds)
    rag_chain,       \* self.rag_chain is set
    rag_count,       \* self._document_count
    rag_last         \* the last operation on the object and how it ended

ragVars == <<rag_disk, rag_vectorstore, rag_chain, rag_count, rag_last>>

VARIABLES
    \* ---- KnowledgeBase (W601/excel_processor.py) behind W601/app.py ----
    kb_disk,         \* the paths that exist in the knowledge-base directory
    kb_files,        \* knowledge_base.files: file_id -> path of its processor, or None
    kb_index,        \* knowledge_base.index: file_id -> file_path of its summary, or None
    kb_last          \* the last request served and how it ended

kbVars == <<kb_disk, kb_files, kb_index, kb_last>>

VARIABLES
    \* ---- analysis_websocket (W601/app.py): one connection to /ws/analysis ----
    ws_pc,           \* position of the handler coroutine
    ws_client,       \* "connected" | "gone": the peer of the connection
    ws_req,          \* number of analyze requests received so far
    ws_cur,          \* the analyze request being served, or None
    ws_sent          \* the messages sent so far, each with the request it belongs to

wsVars == <<ws_pc, ws_client, ws_req, ws_cur, ws_sent>>

VARIABLES
    \* ---- WebSocketVoiceSession / VoiceHandler (W601/voice_handler.py) ----
    vs_cfg,          \* which transcription paths exist: openai_client, recognizer
    vs_recording,    \* self.is_recording
    vs_buffer,       \* voice_handler.audio_buffer, as a sequence of bytes
    vs_since,        \* history: the chunks received while recording since the last start_recording
    vs_n,            \* number of messages handled so far
    vs_forwarded,    \* the texts handed to on_transcription so far
    vs_last          \* the last message handled and what it produced

vsVars == <<vs_cfg, vs_recording, vs_buffer, vs_since, vs_n, vs_forwarded, vs_last>>

VARIABLES
    \* ---- PDFRAGApp.conversation_mode (W301-pdf-rag/main.py) ----
    cv_pc,           \* "menu" | "conversation": where the application is
    cv_history,      \* self.chat_history
    cv_n,            \* number of inputs read in conversation mode so far
    cv_done,         \* history: the exchanges completed since the last 'clear'
    cv_handed        \* the chat_history argument of the last pipeline.query call

cvVars == <<cv_pc, cv_history, cv_n, cv_done, cv_handed>>

rlVars == <<rl_max, rl_requests, rl_clock, rl_pc, rl_now, rl_sleep, rl_ticked, rl_log>>

scrVars == <<scr_path, scr_coe, scr_maxruns, scr_run, scr_pc, scr_criteria, scr_nprod,
            scr_idx, scr_all, scr_remaining, scr_processed, scr_errors, scr_result,
            scr_exc, scr_attempted, scr_failed, scr_seen>>

exVars == <<ex_pc, ex_code, ex_use_jupyter, ex_sigalrm, ex_main, ex_timeout, ex_kernel,
           ex_client, ex_tmp, ex_setup, ex_kout, ex_harvest, ex_jres, ex_alarm,
           ex_elapsed, ex_simple, ex_result>>

scVars == <<sc_pc, sc_n, sc_browser, sc_context, sc_exc, sc_errors, sc_log>>

qVars == <<q_pc, q_args, q_sub_queries, q_sub_answers, q_decomp_ran, q_fusion_ran,
          q_llm, q_result, q_exc>>

ingVars == <<ing_calls, ing_pdf, ing_flags, ing_result, ing_exc, ing_embeds, ing_index>>

frVars == <<fr_pc, fr_args, fr_locals, fr_ret>>

vars == <<rlVars, scrVars, exVars, scVars, qVars, ingVars, frVars, ragVars, kbVars, wsVars, vsVars, cvVars>>

\* The variables of the other components, which a component's actions leave alone.
notRL == <<scrVars, exVars, scVars, qVars, ingVars, frVars, ragVars, kbVars, wsVars, vsVars, cvVars>>
notScr == <<rlVars, exVars, scVars, qVars, ingVars, frVars, ragVars, kbVars, wsVars, vsVars, cvVars>>
notEx == <<rlVars, scrVars, scVars, qVars, ingVars, frVars, ragVars, kbVars, wsVars, vsVars, cvVars>>
notSc == <<rlVars, scrVars, exVars, qVars, ingVars, frVars, ragVars, kbVars, wsVars, vsVars, cvVars>>
notQ == <<rlVars, scrVars, exVars, scVars, ingVars, frVars, ragVars, kbVars, wsVars, vsVars, cvVars>>
notIng == <<rlVars, scrVars, exVars, scVars, qVars, frVars, ragVars, kbVars, wsVars, vsVars, cvVars>>
notFr == <<rlVars, scrVars, exVars, scVars, qVars, ingVars, ragVars, kbVars, wsVars, vsVars, cvVars>>
notRag == <<rlVars, scrVars, exVars, scVars, qVars, ingVars, frVars, kbVars, wsVars, vsVars, cvVars>>
notKb == <<rlVars, scrVars, exVars, scVars, qVars, ingVars, frVars, ragVars, wsVars, vsVars, cvVars>>
notWs == <<rlVars, scrVars, exVars, scVars, qVars, ingVars, frVars, ragVars, kbVars, vsVars, cvVars>>
notVs == <<rlVars, scrVars, exVars, scVars, qVars, ingVars, frVars, ragVars, kbVars, wsVars, cvVars>>
notCv == <<rlVars, scrVars, exVars, scVars, qVars, ingVars, frVars, ragVars, kbVars, wsVars, vsVars>>

\* Optional values: None is the empty tuple, a present value x is <<x>>.
None == <<>>
Some(x) == <<x>>
Val(o) == o[1]

(***************************************************************************)
(* The initial (untouched) state of each component.                        *)
(***************************************************************************)

RLIdle ==
    /\ rl_max = 1 /\ rl_requests = <<>> /\ rl_clock = 0 /\ rl_pc = "idle"
    /\ rl_now = 0 /\ rl_sleep = 0 /\ rl_ticked = FALSE /\ rl_log = <<>>

ScrIdle ==
    /\ scr_path = "browser"
    /\ scr_coe = TRUE
    /\ scr_maxruns = 0
    /\ scr_run = 0
    /\ scr_pc = "idle"
    /\ scr_criteria = None
    /\ scr_nprod = 0
    /\ scr_idx = 1
    /\ scr_all = <<>>
    /\ scr_remaining = 0
    /\ scr_processed = 0
    /\ scr_errors = <<>>
    /\ scr_result = None
    /\ scr_exc = None
    /\ scr_attempted = {}
    /\ scr_failed = {}
    /\ scr_seen = {}

ExIdle ==
    /\ ex_pc = "call" /\ ex_code = "ok" /\ ex_use_jupyter = FALSE
    /\ ex_sigalrm = TRUE /\ ex_main = TRUE /\ ex_timeout = 1
    /\ ex_kernel = "none" /\ ex_client = "none" /\ ex_tmp = "none"
    /\ ex_setup = "none" /\ ex_kout = "none" /\ ex_harvest = "none"
    /\ ex_jres = None /\ ex_alarm = 0 /\ ex_elapsed = 0
    /\ ex_simple = FALSE /\ ex_result = None

ScIdle ==
    /\ sc_pc = "out" /\ sc_n = 0 /\ sc_browser = "none" /\ sc_context = "none"
    /\ sc_exc = None /\ sc_errors = <<>> /\ sc_log = <<>>

QIdle ==
    /\ q_pc = "idle" /\ q_args = None /\ q_sub_queries = <<>> /\ q_sub_answers = <<>>
    /\ q_decomp_ran = FALSE /\ q_fusion_ran = FALSE /\ q_llm = "ok"
    /\ q_result = None /\ q_exc = None

IngIdle ==
    /\ ing_calls = 0 /\ ing_pdf = None /\ ing_flags = None /\ ing_result = None
    /\ ing_exc = None /\ ing_embeds = 0 /\ ing_index = None

FrIdle ==
    /\ fr_pc = "idle" /\ fr_args = None /\ fr_locals = None /\ fr_ret = None

RagIdle ==
    /\ rag_disk = [exists |-> FALSE, index |-> None, count |-> None]
    /\ rag_vectorstore = None /\ rag_chain = FALSE /\ rag_count = 0
    /\ rag_last = [op |-> "init", outcome |-> "returned"]

KbIdle ==
    /\ kb_disk = {}
    /\ kb_files = [id \in {"id_a", "id_b"} |-> None]
    /\ kb_index = [id \in {"id_a", "id_b"} |-> None]
    /\ kb_last = [op |-> "startup", id |-> "none", path |-> "none",
                  existed |-> FALSE, outcome |-> "none"]

WsIdle ==
    /\ ws_pc = "receive" /\ ws_client = "connected" /\ ws_req = 0
    /\ ws_cur = None /\ ws_sent = <<>>

VsIdle ==
    /\ vs_cfg = [openai |-> FALSE, local |-> FALSE]
    /\ vs_recording = FALSE /\ vs_buffer = <<>> /\ vs_since = <<>> /\ vs_n = 0
    /\ vs_forwarded = <<>>
    /\ vs_last = [type |-> "none", was_recording |-> FALSE,
                  text |-> [empty |-> TRUE, audio |-> <<>>], forwarded |-> FALSE]

CvIdle ==
    /\ cv_pc = "menu" /\ cv_history = <<>> /\ cv_n = 0 /\ cv_done = <<>>
    /\ cv_handed = None

\* Every component other than the named one is untouched.
IdleButRL == ScrIdle /\ ExIdle /\ ScIdle /\ QIdle /\ IngIdle /\ FrIdle /\ RagIdle /\ KbIdle /\ WsIdle /\ VsIdle /\ CvIdle
IdleButScr == RLIdle /\ ExIdle /\ ScIdle /\ QIdle /\ IngIdle /\ FrIdle /\ RagIdle /\ KbIdle /\ WsIdle /\ VsIdle /\ CvIdle
IdleButEx == RLIdle /\ ScrIdle /\ ScIdle /\ QIdle /\ IngIdle /\ FrIdle /\ RagIdle /\ KbIdle /\ WsIdle /\ VsIdle /\ CvIdle
IdleButSc == RLIdle /\ ScrIdle /\ ExIdle /\ QIdle /\ IngIdle /\ FrIdle /\ RagIdle /\ KbIdle /\ WsIdle /\ VsIdle /\ CvIdle
IdleButQ == RLIdle /\ ScrIdle /\ ExIdle /\ ScIdle /\ IngIdle /\ FrIdle /\ RagIdle /\ KbIdle /\ WsIdle /\ VsIdle /\ CvIdle
IdleButIng == RLIdle /\ ScrIdle /\ ExIdle /\ ScIdle /\ QIdle /\ FrIdle /\ RagIdle /\ KbIdle /\ WsIdle /\ VsIdle /\ CvIdle
IdleButFr == RLIdle /\ ScrIdle /\ ExIdle /\ ScIdle /\ QIdle /\ IngIdle /\ RagIdle /\ KbIdle /\ WsIdle /\ VsIdle /\ CvIdle
IdleButRag == RLIdle /\ ScrIdle /\ ExIdle /\ ScIdle /\ QIdle /\ IngIdle /\ FrIdle /\ KbIdle /\ WsIdle /\ VsIdle /\ CvIdle
IdleButKb == RLIdle /\ ScrIdle /\ ExIdle /\ ScIdle /\ QIdle /\ IngIdle /\ FrIdle /\ RagIdle /\ WsIdle /\ VsIdle /\ CvIdle
IdleButWs == RLIdle /\ ScrIdle /\ ExIdle /\ ScIdle /\ QIdle /\ IngIdle /\ FrIdle /\ RagIdle /\ KbIdle /\ VsIdle /\ CvIdle
IdleButVs == RLIdle /\ ScrIdle /\ ExIdle /\ ScIdle /\ QIdle /\ IngIdle /\ FrIdle /\ RagIdle /\ KbIdle /\ WsIdle /\ CvIdle
IdleButCv == RLIdle /\ ScrIdle /\ ExIdle /\ ScIdle /\ QIdle /\ IngIdle /\ FrIdle /\ RagIdle /\ KbIdle /\ WsIdle /\ VsIdle

(***************************************************************************)
(* RateLimiter                                                             *)
(***************************************************************************)

\* Largest max_requests a limiter is constructed with in the model.
MaxReq == 2
\* Number of acquire() calls one behaviour makes.
MaxCalls == 4

\* time_window = 60.0 s, in tenths of a second.
TimeWindow == 600
\* the "+ 0.1" small buffer, in tenths of a second.
SleepBuffer == 1

\* Time the serial caller may let pass between two calls.
Ticks == {1, TimeWindow \div 2, TimeWindow}
\* asyncio.sleep(t) returns after at least t: extra lateness of the wake-up.
Overshoot == {0, 1}

RECURSIVE SelectSeqBy(_, _)
\* [x for x in s if keep[x]] for a sequence of timestamps and a window test.
SelectSeqBy(s, now) ==
    IF s = <<>> THEN <<>>
    ELSE IF now - Head(s) < TimeWindow
         THEN <<Head(s)>> \o SelectSeqBy(Tail(s), now)
         ELSE SelectSeqBy(Tail(s), now)

\* self.requests = [t for t in self.requests if now - t < self.time_window]
Evict(reqs, now) == SelectSeqBy(reqs, now)

AtLimitOffByOne(reqs, max) == Len(reqs) > max
\* if len(self.requests) >= self.max_requests
AtLimit(reqs, max) == Len(reqs) >= max

\* sleep_time = self.time_window - (now - self.requests[0]) + 0.1
SleepTime(reqs, now) == TimeWindow - (now - reqs[1]) + SleepBuffer

RLInit ==
    /\ rl_max \in 1..MaxReq
    /\ rl_requests = <<>>
    /\ rl_clock = 0
    /\ rl_pc = "idle"
    /\ rl_now = 0
    /\ rl_sleep = 0
    /\ rl_ticked = FALSE
    /\ rl_log = <<>>

\* The caller lets time pass between two acquire() calls.
RLTick ==
    /\ rl_pc = "idle"
    /\ ~rl_ticked
    /\ Len(rl_log) < MaxCalls
    /\ \E d \in Ticks : rl_clock' = rl_clock + d
    /\ rl_ticked' = TRUE
    /\ UNCHANGED <<rl_max, rl_requests, rl_pc, rl_now, rl_sleep, rl_log>>
    /\ UNCHANGED notRL

\* acquire() up to its suspension point: returns at once (recording `now`)
\* unless it is at the limit with a positive sleep_time.
RLAcquire ==
    /\ rl_pc = "idle"
    /\ Len(rl_log) < MaxCalls
    /\ LET now  == rl_clock
           reqs == Evict(rl_requests, now)
       IN  IF AtLimit(reqs, rl_max) /\ SleepTime(reqs, now) > 0
           THEN /\ rl_pc' = "sleeping"
                /\ rl_now' = now
                /\ rl_sleep' = SleepTime(reqs, now)
                /\ rl_requests' = reqs
                /\ UNCHANGED rl_log
           ELSE /\ rl_requests' = Append(reqs, now)
                /\ rl_log' = Append(rl_log, [at |-> now, ret |-> now])
                /\ UNCHANGED <<rl_pc, rl_now, rl_sleep>>
    /\ rl_ticked' = FALSE
    /\ UNCHANGED <<rl_max, rl_clock>>
    /\ UNCHANGED notRL

\* asyncio.sleep(sleep_time) completes; acquire() records `now` and returns.
RLWake ==
    /\ rl_pc = "sleeping"
    /\ \E o \in Overshoot : rl_clock' = rl_now + rl_sleep + o
    /\ rl_requests' = Append(rl_requests, rl_now)
    /\ rl_log' = Append(rl_log, [at |-> rl_now, ret |-> rl_clock'])
    /\ rl_pc' = "idle"
    /\ UNCHANGED <<rl_max, rl_now, rl_sleep, rl_ticked>>
    /\ UNCHANGED notRL

RLNext == RLTick \/ RLAcquire \/ RLWake

InitRL ==
    /\ RLInit
    /\ IdleButRL

SpecRL == InitRL /\ [][RLNext]_vars

\* C1: on one RateLimiter with time_window = 60, when max_requests + 1
\* acquire() calls are issued in immediate succession (the last of them starts
\* less than one window after the first), the (max_requests + 1)-th call
\* blocks for a positive duration before it returns.
C1_BlocksAtCapacity ==
    (/\ Len(rl_log) >= rl_max + 1
     /\ rl_log[rl_max + 1].at - rl_log[1].at < TimeWindow)
        => rl_log[rl_max + 1].ret > rl_log[rl_max + 1].at

\* max_requests + 1 calls were made with no time passing between them, and
\* the last one returned a whole window later.
C1_Witness ==
    /\ Len(rl_log) >= rl_max + 1
    /\ rl_log[rl_max + 1].at = rl_log[1].at
    /\ rl_log[rl_max + 1].ret - rl_log[rl_max + 1].at >= TimeWindow

\* C24 as stated: of the acquire() calls one caller makes one after the other
\* on one RateLimiter, at most max_requests return within any interval of
\* length time_window: the return of a call and that of the max_requests-th
\* call after it are at least a window apart.
C24_Original ==
    \A i \in DOMAIN rl_log :
        i + rl_max \in DOMAIN rl_log
            => rl_log[i + rl_max].ret - rl_log[i].ret >= TimeWindow

(***************************************************************************)
(* Review models (models/review.py, models/search_criteria.py)             *)
(***************************************************************************)

\* Largest number of products a search returns in the model.
MaxProducts == 2
\* Largest number of reviews one product yields in the model.
MaxFetch == 2

\* `max_pages = 10  # Reasonable limit` of _scrape_product_reviews.
BrowserMaxPages == 10
\* `remaining_reviews = criteria.max_results or 50`
HttpDefaultMax == 50
\* `reviews_to_get = min(remaining_reviews, 10)  # Max 10 per product`
HttpPerProduct == 10

Rev(rating, verified, votes, date) ==
    [rating |-> rating, verified_purchase |-> verified, helpful_votes |-> votes,
     date |-> date, textlen |-> 1]

\* The reviews a page can hold: a verified 5-star one, an unverified 5-star
\* one and a verified 3-star one.
ReviewPool == { Rev(5, TRUE, 1, 2), Rev(5, FALSE, 2, 1), Rev(3, TRUE, 0, 3) }

Crit(minr, verified, maxres, sortby, order) ==
    [min_rating |-> minr, max_rating |-> None, date_range |-> None,
     verified_purchase_only |-> verified, min_review_length |-> None,
     max_review_length |-> None, min_helpful_votes |-> None,
     max_results |-> maxres, sort_by |-> sortby, sort_order |-> order]

\* The SearchCriteria a caller passes.
CriteriaSet ==
    { Crit(None, FALSE, None, "helpful", "desc"),
      Crit(Some(4), TRUE, Some(2), "helpful", "desc"),
      Crit(Some(4), FALSE, Some(1), "rating", "asc"),
      Crit(None, TRUE, Some(3), "date", "desc") }

SeqsUpTo(S, n) == UNION { [1..k -> S] : k \in 0..n }

\* Python truthiness of an Optional[int].
Truthy(x) == x # None /\ Val(x) # 0

Min(a, b) == IF a <= b THEN a ELSE b

Range(s) == { s[i] : i \in DOMAIN s }

MatchesCriteriaNoVerified(r, c) ==
    /\ ~(Truthy(c.min_rating) /\ r.rating < Val(c.min_rating))
    /\ ~(Truthy(c.max_rating) /\ r.rating > Val(c.max_rating))
\* AmazonScraper._matches_criteria; RequestsAmazonScraper._apply_criteria_filter
\* applies the same tests to each review.
MatchesCriteria(r, c) ==
    /\ ~(Truthy(c.min_rating) /\ r.rating < Val(c.min_rating))
    /\ ~(Truthy(c.max_rating) /\ r.rating > Val(c.max_rating))
    /\ (c.date_range # None =>
          /\ ~(Val(c.date_range).start_date # None
                /\ r.date < Val(Val(c.date_range).start_date))
          /\ ~(Val(c.date_range).end_date # None
                /\ r.date > Val(Val(c.date_range).end_date)))
    /\ ~(c.verified_purchase_only /\ ~r.verified_purchase)
    /\ ~(Truthy(c.min_review_length) /\ r.textlen < Val(c.min_review_length))
    /\ ~(Truthy(c.max_review_length) /\ r.textlen > Val(c.max_review_length))
    /\ ~(Truthy(c.min_helpful_votes) /\ r.helpful_votes < Val(c.min_helpful_votes))

RECURSIVE FilterReviews(_, _)
\* [r for r in reviews if self._matches_criteria(r, criteria)]
FilterReviews(s, c) ==
    IF s = <<>> THEN <<>>
    ELSE IF MatchesCriteria(Head(s), c)
         THEN <<Head(s)>> \o FilterReviews(Tail(s), c)
         ELSE FilterReviews(Tail(s), c)

SortKey(r, sortby) ==
    CASE sortby = "date" -> r.date
      [] sortby = "helpful" -> r.helpful_votes
      [] sortby = "rating" -> r.rating

RECURSIVE InsertSorted(_, _, _, _)
\* Stable insertion of x behind every element that does not sort after it.
InsertSorted(s, x, sortby, reverse) ==
    IF s = <<>> THEN <<x>>
    ELSE LET h == Head(s)
             stays == IF reverse THEN SortKey(h, sortby) >= SortKey(x, sortby)
                                 ELSE SortKey(h, sortby) <= SortKey(x, sortby)
         IN  IF stays THEN <<h>> \o InsertSorted(Tail(s), x, sortby, reverse)
                      ELSE <<x>> \o s

RECURSIVE SortFrom(_, _, _, _)
SortFrom(done, rest, sortby, reverse) ==
    IF rest = <<>> THEN done
    ELSE SortFrom(InsertSorted(done, Head(rest), sortby, reverse), Tail(rest),
                  sortby, reverse)

\* list.sort(key=..., reverse=(sort_order == 'desc')): a stable sort.
SortReviews(s, c) == SortFrom(<<>>, s, c.sort_by, c.sort_order = "desc")

\* reviews[:n]
Take(s, n) == SubSeq(s, 1, Min(n, Len(s)))

\* if criteria.max_results: filtered = filtered[:criteria.max_results]
Limit(s, c) == IF Truthy(c.max_results) THEN Take(s, Val(c.max_results)) ELSE s

\* AmazonScraper._apply_filters: filter, sort, limit.
ApplyFilters(s, c) == Limit(SortReviews(FilterReviews(s, c), c), c)

\* RequestsAmazonScraper._apply_final_processing: sort, limit.
ApplyFinalProcessing(s, c) == Limit(SortReviews(s, c), c)

EmptyStats ==
    [total_reviews |-> 0, average_rating |-> <<0, 1>>,
     rating_distribution |-> [k \in {} |-> 0], verified_purchase_count |-> 0,
     date_range |-> None]

RECURSIVE DistTotal(_, _)
\* sum(rating * count for rating, count in rating_distribution.items())
DistTotal(d, keys) ==
    IF keys = {} THEN 0
    ELSE LET k == CHOOSE x \in keys : TRUE
         IN  k * d[k] + DistTotal(d, keys \ {k})

AddReviewLatestLast(st, r) ==
    LET d  == st.rating_distribution
        d2 == [k \in DOMAIN d \cup {r.rating} |->
                 IF k \in DOMAIN d
                 THEN (IF k = r.rating THEN d[k] + 1 ELSE d[k])
                 ELSE 1]
        n  == st.total_reviews + 1
        dr == IF st.date_range = None
              THEN Some([earliest |-> r.date, latest |-> r.date])
              ELSE LET old == Val(st.date_range)
                   IN  Some([earliest |-> IF r.date < old.earliest
                                          THEN r.date ELSE old.earliest,
                             latest   |-> r.date])
    IN  [total_reviews |-> n,
         average_rating |-> <<DistTotal(d2, DOMAIN d2), n>>,
         rating_distribution |-> d2,
         verified_purchase_count |->
             st.verified_purchase_count + (IF r.verified_purchase THEN 1 ELSE 0),
         date_range |-> dr]

\* ReviewStats.add_review; average_rating is kept as the exact ratio
\* <<total_rating, total_reviews>>.
AddReview(st, r) ==
    LET d  == st.rating_distribution
        d2 == [k \in DOMAIN d \cup {r.rating} |->
                 IF k \in DOMAIN d
                 THEN (IF k = r.rating THEN d[k] + 1 ELSE d[k])
                 ELSE 1]
        n  == st.total_reviews + 1
        dr == IF st.date_range = None
              THEN Some([earliest |-> r.date, latest |-> r.date])
              ELSE LET old == Val(st.date_range)
                   IN  Some([earliest |-> IF r.date < old.earliest
                                          THEN r.date ELSE old.earliest,
                             latest   |-> IF r.date > old.latest
                                          THEN r.date ELSE old.latest])
    IN  [total_reviews |-> n,
         average_rating |-> <<DistTotal(d2, DOMAIN d2), n>>,
         rating_distribution |-> d2,
         verified_purchase_count |->
             st.verified_purchase_count + (IF r.verified_purchase THEN 1 ELSE 0),
         date_range |-> dr]

RECURSIVE StatsFrom(_, _)
StatsFrom(st, s) == IF s = <<>> THEN st ELSE StatsFrom(AddReview(st, Head(s)), Tail(s))

\* _generate_stats of both scrapers.
GenerateStats(s) == StatsFrom(EmptyStats, s)

(***************************************************************************)
(* scrape_reviews: AmazonScraper (browser) and RequestsAmazonScraper (HTTP) *)
(***************************************************************************)

Err(run, kind) == [run |-> run, kind |-> kind]

ProductError == [type |-> "ProductError", wraps |-> "nothing"]
SearchError == [type |-> "SearchError", wraps |-> "nothing"]

\* except Exception as e: ... raise RuntimeError(f"Scraping failed: {e}")
OuterHandler(e) == [type |-> "RuntimeError", wraps |-> e.type]

ContinuesAlways(coe) == TRUE
\* if not self.config.error_handling.continue_on_error: raise
ContinuesAfterError(coe) == coe

\* if search_criteria.max_results and len(all_reviews) >= search_criteria.max_results
BrowserAtMax(all, c) == Truthy(c.max_results) /\ Len(all) >= Val(c.max_results)

RECURSIVE ScrapePages(_, _, _, _)
\* The page loop of _scrape_product_reviews: `pages` are the review pages the
\* product has (a "next" control leads from each to the following one).
ScrapePages(pages, reviews, c, current_page) ==
    IF /\ current_page <= BrowserMaxPages
       /\ (Truthy(c.max_results) => Len(reviews) < Val(c.max_results))
    THEN LET got == reviews \o FilterReviews(pages[current_page], c)
         IN  IF current_page = Len(pages) THEN got
             ELSE ScrapePages(pages, got, c, current_page + 1)
    ELSE reviews

\* A product's reviews laid out on one or two pages.
PagesOf(s, k) == IF k < Len(s) /\ k > 0 THEN <<SubSeq(s, 1, k), SubSeq(s, k + 1, Len(s))>>
                 ELSE <<s>>

Result(reviews, total, errors) ==
    [reviews |-> reviews, stats |-> GenerateStats(reviews),
     total_processed |-> total, errors |-> errors]

\* RequestsAmazonScraper._create_empty_result
EmptyResult(errors) ==
    [reviews |-> <<>>, stats |-> EmptyStats, total_processed |-> 0, errors |-> errors]

\* A freshly constructed scraper, about to be used for `runs` invocations.
ScrInitFor(runs) ==
    /\ scr_path \in {"browser", "http"}
    /\ scr_coe \in (IF scr_path = "browser" THEN BOOLEAN ELSE {TRUE})
    /\ scr_maxruns = runs
    /\ scr_run = 0
    /\ scr_pc = "idle"
    /\ scr_criteria = None
    /\ scr_nprod = 0
    /\ scr_idx = 1
    /\ scr_all = <<>>
    /\ scr_remaining = 0
    /\ scr_processed = 0
    /\ scr_errors = <<>>
    /\ scr_result = None
    /\ scr_exc = None
    /\ scr_attempted = {}
    /\ scr_failed = {}
    /\ scr_seen = {}

\* The caller invokes scrape_reviews(criteria): the locals are initialised;
\* self.errors is whatever earlier invocations left.
ScrapeStart ==
    /\ scr_pc \in {"idle", "done", "raised"}
    /\ scr_run < scr_maxruns
    /\ \E c \in CriteriaSet : scr_criteria' = Some(c)
    /\ scr_run' = scr_run + 1
    /\ scr_pc' = "search"
    /\ scr_nprod' = 0
    /\ scr_idx' = 1
    /\ scr_all' = <<>>
    /\ scr_remaining' = 0
    /\ scr_processed' = 0
    /\ scr_result' = None
    /\ scr_exc' = None
    /\ scr_attempted' = {}
    /\ scr_failed' = {}
    /\ scr_seen' = {}
    /\ UNCHANGED <<scr_path, scr_coe, scr_maxruns, scr_errors>>
    /\ UNCHANGED notScr

\* Browser path, step 1: _search_products returns products or raises (the
\* outer handler then records "Scraping failed" and raises RuntimeError).
BrowserSearch ==
    /\ scr_pc = "search" /\ scr_path = "browser"
    /\ \/ /\ \E n \in 0..MaxProducts : scr_nprod' = n
          /\ scr_pc' = "loop"
          /\ UNCHANGED <<scr_errors, scr_exc>>
       \/ /\ scr_errors' = Append(scr_errors, Err(scr_run, "failed"))
          /\ scr_exc' = Some(OuterHandler(SearchError))
          /\ scr_pc' = "raised"
          /\ UNCHANGED scr_nprod
    /\ UNCHANGED <<scr_path, scr_coe, scr_maxruns, scr_run, scr_criteria, scr_idx,
                   scr_all, scr_remaining, scr_processed, scr_result, scr_attempted,
                   scr_failed, scr_seen>>
    /\ UNCHANGED notScr

\* Browser path, step 2: one iteration of the product loop.
BrowserProduct ==
    /\ scr_pc = "loop" /\ scr_path = "browser"
    /\ scr_idx <= scr_nprod
    /\ ~BrowserAtMax(scr_all, Val(scr_criteria))
    /\ scr_attempted' = scr_attempted \cup {scr_idx}
    /\ \/ \* _scrape_product_reviews returns the product's filtered reviews
          /\ \E s \in SeqsUpTo(ReviewPool, MaxFetch) : \E k \in 0..Len(s) :
                /\ scr_all' = scr_all \o ScrapePages(PagesOf(s, k), <<>>,
                                                      Val(scr_criteria), 1)
                /\ scr_seen' = scr_seen \cup Range(s)
          /\ scr_processed' = scr_processed + 1
          /\ scr_idx' = scr_idx + 1
          /\ UNCHANGED <<scr_errors, scr_exc, scr_pc, scr_failed>>
       \/ \* acquire / _scrape_product_reviews raises
          /\ scr_failed' = scr_failed \cup {scr_idx}
          /\ IF ContinuesAfterError(scr_coe)
             THEN /\ scr_errors' = Append(scr_errors, Err(scr_run, "product"))
                  /\ scr_idx' = scr_idx + 1
                  /\ UNCHANGED <<scr_exc, scr_pc>>
             ELSE /\ scr_errors' = Append(Append(scr_errors, Err(scr_run, "product")),
                                          Err(scr_run, "failed"))
                  /\ scr_exc' = Some(OuterHandler(ProductError))
                  /\ scr_pc' = "raised"
                  /\ UNCHANGED scr_idx
          /\ UNCHANGED <<scr_all, scr_processed, scr_seen>>
    /\ UNCHANGED <<scr_path, scr_coe, scr_maxruns, scr_run, scr_criteria, scr_nprod,
                   scr_remaining, scr_result>>
    /\ UNCHANGED notScr

\* Browser path, steps 3 and 4: final filtering, statistics, ScrapingResult.
BrowserFinalize ==
    /\ scr_pc = "loop" /\ scr_path = "browser"
    /\ (scr_idx > scr_nprod \/ BrowserAtMax(scr_all, Val(scr_criteria)))
    /\ scr_result' = Some(Result(ApplyFilters(scr_all, Val(scr_criteria)), scr_processed,
                                 scr_errors))
    /\ scr_pc' = "done"
    /\ UNCHANGED <<scr_path, scr_coe, scr_maxruns, scr_run, scr_criteria, scr_nprod,
                   scr_idx, scr_all, scr_remaining, scr_processed, scr_errors, scr_exc,
                   scr_attempted, scr_failed, scr_seen>>
    /\ UNCHANGED notScr

\* HTTP path, step 1: search_products(max_products=5); no products, or an
\* exception caught by the outer handler, gives the empty result.
HttpSearch ==
    /\ scr_pc = "search" /\ scr_path = "http"
    /\ \/ /\ \E n \in 1..MaxProducts : scr_nprod' = n
          /\ scr_remaining' = (IF Truthy(Val(scr_criteria).max_results)
                               THEN Val(Val(scr_criteria).max_results)
                               ELSE HttpDefaultMax)
          /\ scr_pc' = "loop"
          /\ UNCHANGED <<scr_errors, scr_result>>
       \/ /\ scr_result' = Some(EmptyResult(scr_errors))
          /\ scr_pc' = "done"
          /\ UNCHANGED <<scr_nprod, scr_remaining, scr_errors>>
       \/ /\ scr_errors' = Append(scr_errors, Err(scr_run, "failed"))
          /\ scr_result' = Some(EmptyResult(scr_errors'))
          /\ scr_pc' = "done"
          /\ UNCHANGED <<scr_nprod, scr_remaining>>
    /\ UNCHANGED <<scr_path, scr_coe, scr_maxruns, scr_run, scr_criteria, scr_idx,
                   scr_all, scr_processed, scr_exc, scr_attempted, scr_failed, scr_seen>>
    /\ UNCHANGED notScr

\* HTTP path, step 2: one iteration of the product loop (get_product_reviews
\* or get_product_reviews_paginated returns at most reviews_to_get reviews).
HttpProduct ==
    /\ scr_pc = "loop" /\ scr_path = "http"
    /\ scr_idx <= scr_nprod
    /\ scr_remaining > 0
    /\ scr_attempted' = scr_attempted \cup {scr_idx}
    /\ scr_idx' = scr_idx + 1
    /\ \/ /\ \E s \in SeqsUpTo(ReviewPool,
                               Min(Min(scr_remaining, HttpPerProduct), MaxFetch)) :
                LET to_add == Take(FilterReviews(s, Val(scr_criteria)), scr_remaining)
                IN  /\ scr_all' = scr_all \o to_add
                    /\ scr_remaining' = scr_remaining - Len(to_add)
                    /\ scr_seen' = scr_seen \cup Range(s)
          /\ UNCHANGED <<scr_errors, scr_failed>>
       \/ /\ scr_failed' = scr_failed \cup {scr_idx}
          /\ scr_errors' = Append(scr_errors, Err(scr_run, "product"))
          /\ UNCHANGED <<scr_all, scr_remaining, scr_seen>>
    /\ UNCHANGED <<scr_path, scr_coe, scr_maxruns, scr_run, scr_criteria, scr_nprod,
                   scr_processed, scr_result, scr_exc, scr_pc>>
    /\ UNCHANGED notScr

\* HTTP path, steps 3 and 4: final sorting and limiting, statistics, result.
HttpFinalize ==
    /\ scr_pc = "loop" /\ scr_path = "http"
    /\ (scr_idx > scr_nprod \/ scr_remaining <= 0)
    /\ scr_result' = Some(Result(ApplyFinalProcessing(scr_all, Val(scr_criteria)),
                                 scr_nprod, scr_errors))
    /\ scr_pc' = "done"
    /\ UNCHANGED <<scr_path, scr_coe, scr_maxruns, scr_run, scr_criteria, scr_nprod,
                   scr_idx, scr_all, scr_remaining, scr_processed, scr_errors, scr_exc,
                   scr_attempted, scr_failed, scr_seen>>
    /\ UNCHANGED notScr

ScrNext ==
    \/ ScrapeStart
    \/ BrowserSearch \/ BrowserProduct \/ BrowserFinalize
    \/ HttpSearch \/ HttpProduct \/ HttpFinalize

\* One invocation of scrape_reviews on a fresh scraper.
InitScrape ==
    /\ ScrInitFor(1)
    /\ IdleButScr

SpecScrape == InitScrape /\ [][ScrNext]_vars

\* What the claims mean by a review satisfying the criteria.
Satisfies(r, c) ==
    /\ (c.min_rating # None => r.rating >= Val(c.min_rating))
    /\ (c.max_rating # None => r.rating <= Val(c.max_rating))
    /\ (c.verified_purchase_only => r.verified_purchase)
    /\ (c.min_helpful_votes # None => r.helpful_votes >= Val(c.min_helpful_votes))
    /\ (c.min_review_length # None => r.textlen >= Val(c.min_review_length))
    /\ (c.max_review_length # None => r.textlen <= Val(c.max_review_length))

RECURSIVE CountErrors(_, _, _)
\* Number of entries of kind `kind` that invocation `run` appended.
CountErrors(errors, run, kind) ==
    IF errors = <<>> THEN 0
    ELSE (IF Head(errors) = Err(run, kind) THEN 1 ELSE 0)
         + CountErrors(Tail(errors), run, kind)

\* C3 (as amended): in the browser scraper's scrape_reviews, when scraping one
\* product raises, the error is appended to the error list; if
\* continue_on_error is set the remaining products are still processed (up to
\* max_results); if it is not set the run aborts at that product: a
\* "Scraping failed" entry is appended as well and a RuntimeError wrapping that
\* exception, not the exception itself, propagates to the caller.
C3_ErrorPolicy ==
    scr_path = "browser" =>
        /\ CountErrors(scr_errors, scr_run, "product") = Cardinality(scr_failed)
        /\ (scr_coe /\ scr_failed # {}) =>
              /\ scr_pc \in {"loop", "done"}
              /\ \A i \in scr_failed : scr_idx > i
              /\ scr_pc = "done" =>
                    \/ scr_attempted = 1..scr_nprod
                    \/ BrowserAtMax(scr_all, Val(scr_criteria))
        /\ (~scr_coe /\ scr_failed # {}) =>
              /\ scr_pc = "raised"
              /\ scr_result = None
              /\ scr_exc = Some([type |-> "RuntimeError", wraps |-> "ProductError"])
              /\ CountErrors(scr_errors, scr_run, "failed") = 1
              /\ \A i \in scr_attempted : \A j \in scr_failed : i <= j

\* C3 as stated: without continue_on_error the product's own exception is
\* what reaches the caller.
C3_Original ==
    (scr_path = "browser" /\ ~scr_coe /\ scr_failed # {}) =>
        (scr_pc = "raised" /\ scr_exc = Some(ProductError))

\* With continue_on_error the first of two products failed and the second was
\* still scraped, and the run returned a result listing the error.
C3_Witness ==
    /\ scr_path = "browser" /\ scr_coe /\ scr_pc = "done"
    /\ scr_failed = {1} /\ scr_attempted = {1, 2}
    /\ Len(Val(scr_result).reviews) > 0
    /\ Len(Val(scr_result).errors) = 1

(***************************************************************************)
(* CodeExecutor (W601/code_executor.py)                                    *)
(***************************************************************************)

\* Seconds of wall-clock time for which a running exec() is followed.
MaxElapsed == 3

\* How a piece of generated code behaves when run in-process: it completes,
\* raises, loops forever, or loops forever around a bare `except:`.
CodeKinds == {"ok", "raises", "loop", "loop_catch"}
Loops == {"loop", "loop_catch"}
\* self.timeout values the executors are constructed with.
Timeouts == {1, 2}
\* What the kernel delivers for one execute request: output up to the idle
\* status, an error message, or no message within the timeout.
KernelOutcomes == {"ok", "error", "timeout"}
\* The kernel is another interpreter process: code that completes in-process
\* may still fail there; code that raises or never ends does so there too.
KernelOutcomesFor(kind) ==
    CASE kind = "ok" -> KernelOutcomes
      [] kind = "raises" -> {"error"}
      [] OTHER -> {"timeout"}

\* The result dict of the executors (success, output, error, result).
ExecResult(success, output, error, result) ==
    [success |-> success, output |-> output, error |-> error, result |-> result]

\* JupyterCodeExecutor._run_code: the text returned for a kernel outcome.
RunCode(outcome) ==
    CASE outcome = "ok" -> "text"
      [] outcome = "error" -> "ERROR"
      [] OTHER -> ""

\* The result JupyterCodeExecutor.execute builds once the three snippets have
\* been sent: success is set whatever the kernel reported.
JupyterResult(kout, harvest) ==
    ExecResult(TRUE, RunCode(kout), "none",
               IF harvest = "ok" /\ kout = "ok" THEN "value" ELSE "none")

KernelLeftRunning(km) == km

\* The finally block: shutdown_kernel() on the kernel manager if there is one.
KernelAfterFinally(km) == IF km = "running" THEN "down" ELSE km

\* The finally block: stop_channels() on the client if there is one.
ClientAfterFinally(c) == IF c = "open" THEN "stopped" ELSE c

AlarmNever(has_sigalrm, timeout) == 0

\* SimpleCodeExecutor.execute arms signal.alarm(self.timeout) where the
\* platform has SIGALRM and arms nothing elsewhere.
AlarmFor(has_sigalrm, timeout) == IF has_sigalrm THEN timeout ELSE 0

\* A constructed CodeExecutor about to receive one execute() call.
ExInit ==
    /\ ex_pc = "call"
    /\ ex_code \in CodeKinds
    /\ ex_use_jupyter \in BOOLEAN
    /\ ex_sigalrm \in BOOLEAN
    /\ ex_main \in BOOLEAN
    /\ ex_timeout \in Timeouts
    /\ ex_kernel = "none" /\ ex_client = "none" /\ ex_tmp = "none"
    /\ ex_setup = "none" /\ ex_kout = "none" /\ ex_harvest = "none"
    /\ ex_jres = None /\ ex_alarm = 0 /\ ex_elapsed = 0
    /\ ex_simple = FALSE /\ ex_result = None

\* CodeExecutor.execute, entry: the kernel path first when it is available.
ExecuteDispatch ==
    /\ ex_pc = "call"
    /\ IF ex_use_jupyter
       THEN ex_pc' = "j_start" /\ UNCHANGED ex_simple
       ELSE ex_pc' = "s_arm" /\ ex_simple' = TRUE
    /\ UNCHANGED <<ex_code, ex_use_jupyter, ex_sigalrm, ex_main, ex_timeout, ex_kernel,
                   ex_client, ex_tmp, ex_setup, ex_kout, ex_harvest, ex_jres, ex_alarm,
                   ex_elapsed, ex_result>>
    /\ UNCHANGED notEx

\* JupyterCodeExecutor.execute: start_new_kernel() returns a kernel and its
\* client, or raises (the handler records the error, nothing was started).
JupyterStart ==
    /\ ex_pc = "j_start"
    /\ \/ /\ ex_kernel' = "running" /\ ex_client' = "open"
          /\ ex_pc' = "j_inject"
          /\ UNCHANGED ex_jres
       \/ /\ ex_jres' = Some(ExecResult(FALSE, "", "exception", "none"))
          /\ ex_pc' = "j_finally"
          /\ UNCHANGED <<ex_kernel, ex_client>>
    /\ UNCHANGED <<ex_code, ex_use_jupyter, ex_sigalrm, ex_main, ex_timeout, ex_tmp,
                   ex_setup, ex_kout, ex_harvest, ex_alarm, ex_elapsed, ex_simple,
                   ex_result>>
    /\ UNCHANGED notEx

\* Data injection: the table is pickled to a temp file (to_pickle may raise
\* after the file was created) and the setup snippet is run in the kernel.
JupyterInject ==
    /\ ex_pc = "j_inject"
    /\ ex_tmp' = "exists"
    /\ \/ /\ \E o \in KernelOutcomes : ex_setup' = o
          /\ ex_pc' = "j_code"
          /\ UNCHANGED ex_jres
       \/ /\ ex_jres' = Some(ExecResult(FALSE, "", "exception", "none"))
          /\ ex_pc' = "j_finally"
          /\ UNCHANGED ex_setup
    /\ UNCHANGED <<ex_code, ex_use_jupyter, ex_sigalrm, ex_main, ex_timeout, ex_kernel,
                   ex_client, ex_kout, ex_harvest, ex_alarm, ex_elapsed, ex_simple,
                   ex_result>>
    /\ UNCHANGED notEx

\* The submitted code is run in the kernel; _run_code never raises.
JupyterRun ==
    /\ ex_pc = "j_code"
    /\ \E o \in (IF ex_setup = "ok" THEN KernelOutcomesFor(ex_code)
                 ELSE KernelOutcomesFor(ex_code) \cup {"error"}) : ex_kout' = o
    /\ ex_pc' = "j_harvest"
    /\ UNCHANGED <<ex_code, ex_use_jupyter, ex_sigalrm, ex_main, ex_timeout, ex_kernel,
                   ex_client, ex_tmp, ex_setup, ex_harvest, ex_jres, ex_alarm,
                   ex_elapsed, ex_simple, ex_result>>
    /\ UNCHANGED notEx

\* Result harvesting: the harvesting snippet is run and its output parsed (a
\* missing marker or bad JSON is tolerated), success is set, and the temp file
\* is unlinked (os.unlink may raise: the handler records the error).
JupyterHarvest ==
    /\ ex_pc = "j_harvest"
    /\ \E o \in KernelOutcomes :
          /\ ex_harvest' = o
          /\ \/ /\ ex_jres' = Some(JupyterResult(ex_kout, o))
                /\ ex_tmp' = "deleted"
             \/ /\ ex_jres' = Some([JupyterResult(ex_kout, o) EXCEPT !.error = "exception"])
                /\ UNCHANGED ex_tmp
    /\ ex_pc' = "j_finally"
    /\ UNCHANGED <<ex_code, ex_use_jupyter, ex_sigalrm, ex_main, ex_timeout, ex_kernel,
                   ex_client, ex_setup, ex_kout, ex_alarm, ex_elapsed, ex_simple,
                   ex_result>>
    /\ UNCHANGED notEx

\* The finally block, then `return result` of JupyterCodeExecutor.execute.
JupyterFinally ==
    /\ ex_pc = "j_finally"
    /\ ex_client' = ClientAfterFinally(ex_client)
    /\ ex_kernel' = KernelAfterFinally(ex_kernel)
    /\ ex_pc' = "j_ret"
    /\ UNCHANGED <<ex_code, ex_use_jupyter, ex_sigalrm, ex_main, ex_timeout, ex_tmp,
                   ex_setup, ex_kout, ex_harvest, ex_jres, ex_alarm, ex_elapsed,
                   ex_simple, ex_result>>
    /\ UNCHANGED notEx

\* CodeExecutor.execute, after the kernel path: its result is returned if it
\* says success, otherwise the restricted evaluator is invoked.
ExecuteAfterJupyter ==
    /\ ex_pc = "j_ret"
    /\ IF Val(ex_jres).success
       THEN /\ ex_result' = ex_jres
            /\ ex_pc' = "returned"
            /\ UNCHANGED ex_simple
       ELSE /\ ex_simple' = TRUE
            /\ ex_pc' = "s_arm"
            /\ UNCHANGED ex_result
    /\ UNCHANGED <<ex_code, ex_use_jupyter, ex_sigalrm, ex_main, ex_timeout, ex_kernel,
                   ex_client, ex_tmp, ex_setup, ex_kout, ex_harvest, ex_jres, ex_alarm,
                   ex_elapsed>>
    /\ UNCHANGED notEx

\* SimpleCodeExecutor.execute up to exec(): where SIGALRM exists the handler
\* is installed and the alarm armed; signal.signal raises ValueError outside
\* the main thread, which the generic handler turns into an error result.
SimpleArm ==
    /\ ex_pc = "s_arm"
    /\ IF ex_sigalrm /\ ~ex_main
       THEN /\ ex_result' = Some(ExecResult(FALSE, "", "exec_error", "none"))
            /\ ex_alarm' = 0
            /\ ex_pc' = "returned"
       ELSE /\ ex_alarm' = AlarmFor(ex_sigalrm, ex_timeout)
            /\ ex_pc' = "s_exec"
            /\ UNCHANGED ex_result
    /\ ex_elapsed' = 0
    /\ UNCHANGED <<ex_code, ex_use_jupyter, ex_sigalrm, ex_main, ex_timeout, ex_kernel,
                   ex_client, ex_tmp, ex_setup, ex_kout, ex_harvest, ex_jres, ex_simple>>
    /\ UNCHANGED notEx

\* exec() of code that ends: it completes (alarm(0), success) or raises (the
\* generic handler); the finally block cancels the alarm; the result returns.
SimpleExec ==
    /\ ex_pc = "s_exec"
    /\ ex_code \notin Loops
    /\ ex_result' = Some(IF ex_code = "ok"
                         THEN ExecResult(TRUE, "text", "none", "value")
                         ELSE ExecResult(FALSE, "", "exec_error", "none"))
    /\ ex_alarm' = 0
    /\ ex_pc' = "returned"
    /\ UNCHANGED <<ex_code, ex_use_jupyter, ex_sigalrm, ex_main, ex_timeout, ex_kernel,
                   ex_client, ex_tmp, ex_setup, ex_kout, ex_harvest, ex_jres,
                   ex_elapsed, ex_simple>>
    /\ UNCHANGED notEx

\* One more second passes inside an exec() that loops; a pending alarm is
\* delivered when its second arrives, so time does not pass beyond it.
SimpleTick ==
    /\ ex_pc = "s_exec"
    /\ ex_code \in Loops
    /\ ex_elapsed < MaxElapsed
    /\ (ex_alarm = 0 \/ ex_elapsed < ex_alarm)
    /\ ex_elapsed' = ex_elapsed + 1
    /\ UNCHANGED <<ex_pc, ex_code, ex_use_jupyter, ex_sigalrm, ex_main, ex_timeout,
                   ex_kernel, ex_client, ex_tmp, ex_setup, ex_kout, ex_harvest, ex_jres,
                   ex_alarm, ex_simple, ex_result>>
    /\ UNCHANGED notEx

\* SIGALRM is delivered: timeout_handler raises TimeoutError inside exec().
\* It reaches `except TimeoutError` (timeout error, finally cancels the alarm,
\* the result returns) unless the running code's own bare `except:` catches
\* it, in which case the loop goes on with no alarm pending.
SimpleAlarm ==
    /\ ex_pc = "s_exec"
    /\ ex_alarm > 0 /\ ex_elapsed = ex_alarm
    /\ ex_alarm' = 0
    /\ \/ /\ ex_result' = Some(ExecResult(FALSE, "", "timeout", "none"))
          /\ ex_pc' = "returned"
       \/ /\ ex_code = "loop_catch"
          /\ UNCHANGED <<ex_result, ex_pc>>
    /\ UNCHANGED <<ex_code, ex_use_jupyter, ex_sigalrm, ex_main, ex_timeout, ex_kernel,
                   ex_client, ex_tmp, ex_setup, ex_kout, ex_harvest, ex_jres,
                   ex_elapsed, ex_simple>>
    /\ UNCHANGED notEx

ExNext ==
    \/ ExecuteDispatch
    \/ JupyterStart \/ JupyterInject \/ JupyterRun \/ JupyterHarvest \/ JupyterFinally
    \/ ExecuteAfterJupyter
    \/ SimpleArm \/ SimpleExec \/ SimpleTick \/ SimpleAlarm

InitExec ==
    /\ ExInit
    /\ IdleButEx

SpecExec == InitExec /\ [][ExNext]_vars

\* The restricted evaluator, run on its own in this environment, returns a
\* successful result for this code.
RunsUnaided == ex_code = "ok" /\ (ex_sigalrm => ex_main)

\* C4 as stated: CodeExecutor.execute tries the kernel path first when it is
\* available; whenever that path fails (it is unavailable, it raises, or the
\* code's run in the kernel is unsuccessful) the restricted evaluator is
\* invoked; so for code the restricted evaluator can run unaided the returned
\* result is successful and carries that code's result.
C4_Original ==
    /\ (ex_simple /\ ex_use_jupyter) => ex_jres # None
    /\ ex_pc = "returned" =>
          /\ (~ex_use_jupyter \/ ex_kernel = "none" \/ ex_kout # "ok") => ex_simple
          /\ RunsUnaided =>
                (Val(ex_result).success /\ Val(ex_result).result = "value")

\* C5 (as amended): on a platform with SIGALRM, with execute running in the
\* main thread, code whose infinite loop does not itself catch the timeout
\* exception runs in the restricted evaluator for at most `timeout` seconds;
\* execute then returns an unsuccessful result whose error is the timeout
\* error, and no alarm is pending when it returns.
C5_TimeoutWhereAlarmed ==
    (ex_simple /\ ex_code = "loop" /\ ex_sigalrm /\ ex_main) =>
        /\ ex_elapsed <= ex_timeout
        /\ ex_pc = "returned" =>
              /\ ex_result = Some(ExecResult(FALSE, "", "timeout", "none"))
              /\ ex_elapsed = ex_timeout
              /\ ex_alarm = 0

\* C5 as stated: any code containing an infinite loop, run by the restricted
\* evaluator with timeout = 1, has stopped running after 1 second, and execute
\* returns an unsuccessful timeout result with no alarm pending.
C5_Original ==
    (ex_simple /\ ex_code \in Loops /\ ex_timeout = 1) =>
        /\ ex_elapsed <= ex_timeout
        /\ ex_pc = "returned" =>
              /\ ex_result = Some(ExecResult(FALSE, "", "timeout", "none"))
              /\ ex_alarm = 0

\* The loop was interrupted after exactly one second and execute returned the
\* timeout result.
C5_Witness ==
    /\ ex_pc = "returned" /\ ex_simple /\ ex_code = "loop" /\ ex_timeout = 1
    /\ ex_sigalrm /\ ex_main
    /\ ex_elapsed = 1
    /\ Val(ex_result).error = "timeout"

MaxScopes == 3

\* What is left behind when a scope has been left: the state of the browser
\* and of the context, and the exception that propagates to the caller.
ScopeExit(browser, context, exc) ==
    /\ sc_pc' = "out"
    /\ sc_browser' = browser
    /\ sc_context' = context
    /\ sc_log' = Append(sc_log, [browser |-> browser, context |-> context, exc |-> exc])

\* `async with AmazonScraper(config)`: __init__, then __aenter__ calls
\* initialize, which starts playwright and launches the browser.  A failure
\* is recorded in self.errors and raised as RuntimeError out of __aenter__,
\* so the scope is left without __aexit__ being called.
ScopeEnter ==
    /\ sc_pc = "out"
    /\ sc_n < MaxScopes
    /\ sc_n' = sc_n + 1
    /\ sc_exc' = None
    /\ \/ /\ sc_browser' = "open"
          /\ sc_context' = "none"
          /\ sc_pc' = "context"
          /\ sc_errors' = <<>>
          /\ UNCHANGED sc_log
       \/ /\ sc_errors' = <<"init">>
          /\ ScopeExit("none", "none", "RuntimeError")
    /\ UNCHANGED notSc

\* initialize: browser.new_context(...).
InitContext ==
    /\ sc_pc = "context"
    /\ \/ /\ sc_context' = "open"
          /\ sc_pc' = "route"
          /\ UNCHANGED <<sc_browser, sc_errors, sc_log>>
       \/ /\ sc_errors' = Append(sc_errors, "init")
          /\ ScopeExit(sc_browser, sc_context, "RuntimeError")
    /\ UNCHANGED <<sc_n, sc_exc>>
    /\ UNCHANGED notSc

\* initialize: set_default_timeout and context.route(...); then __aenter__
\* returns and the body of the scope starts.
InitRoute ==
    /\ sc_pc = "route"
    /\ \/ /\ sc_pc' = "body"
          /\ UNCHANGED <<sc_browser, sc_context, sc_errors, sc_log>>
       \/ /\ sc_errors' = Append(sc_errors, "init")
          /\ ScopeExit(sc_browser, sc_context, "RuntimeError")
    /\ UNCHANGED <<sc_n, sc_exc>>
    /\ UNCHANGED notSc

\* The body of the scope ends normally or by an exception; either way
\* __aexit__ is called.
ScopeBody ==
    /\ sc_pc = "body"
    /\ \E e \in {None, Some("BodyError")} : sc_exc' = e
    /\ sc_pc' = "close"
    /\ UNCHANGED <<sc_n, sc_browser, sc_context, sc_errors, sc_log>>
    /\ UNCHANGED notSc

\* __aexit__ -> close: context.close() is awaited first; if it raises, the
\* exception leaves close and __aexit__ at once.
CloseContext ==
    /\ sc_pc = "close"
    /\ \/ /\ sc_context' = "closed"
          /\ sc_pc' = "close_browser"
          /\ UNCHANGED <<sc_browser, sc_log>>
       \/ ScopeExit(sc_browser, "closed", "CloseError")
    /\ UNCHANGED <<sc_n, sc_exc, sc_errors>>
    /\ UNCHANGED notSc

\* close: browser.close(); __aexit__ returns None, so an exception of the
\* body propagates once close is done.
CloseBrowser ==
    /\ sc_pc = "close_browser"
    /\ \/ ScopeExit("closed", sc_context, IF sc_exc = None THEN "none" ELSE Val(sc_exc))
       \/ ScopeExit("closed", sc_context, "CloseError")
    /\ UNCHANGED <<sc_n, sc_exc, sc_errors>>
    /\ UNCHANGED notSc

ScNext ==
    \/ ScopeEnter \/ InitContext \/ InitRoute \/ ScopeBody \/ CloseContext \/ CloseBrowser

InitScope ==
    /\ ScIdle
    /\ IdleButSc

SpecScope == InitScope /\ [][ScNext]_vars

\* C7 as stated: whenever a scope has been left, normally or by an exception,
\* no browser and no browsing context that initialize launched in it is still
\* open: close has been called on each.
C7_Original ==
    \A i \in DOMAIN sc_log : sc_log[i].browser # "open" /\ sc_log[i].context # "open"

(***************************************************************************)
(* PDFRAGPipeline.query (W301-pdf-rag/pipeline.py)                            *)
(***************************************************************************)

\* Largest number of sub-queries query_decomposition returns in the model.
MaxSubQueries == 2

\* Results of _single_query / generate_answer: an answer and its citations.
Answers ==
    { [answer |-> "a1", citations |-> <<>>],
      [answer |-> "a2", citations |-> <<"c1">>],
      [answer |-> "a3", citations |-> <<"c1", "c2">>] }

\* Where the try block of generate_decomposed_answer can fail: creating the
\* client or sending the request, or reading the reply's first choice.
SynthesisOutcomes == {"ok", "request", "response"}

\* The keyword arguments of query().
QueryArgs ==
    [use_query_decomposition : BOOLEAN, use_rag_fusion : BOOLEAN,
     use_reranking : BOOLEAN, chat_history : BOOLEAN]

RECURSIVE AllCitations(_)
\* all_citations: the citations of the sub-answers, in order.
AllCitations(sub_answers) ==
    IF sub_answers = <<>> THEN <<>>
    ELSE Head(sub_answers).citations \o AllCitations(Tail(sub_answers))

RECURSIVE Dedup(_, _)
\* unique_citations: first occurrences only.
Dedup(seen, s) ==
    IF s = <<>> THEN <<>>
    ELSE IF Head(s) \in seen THEN Dedup(seen, Tail(s))
         ELSE <<Head(s)>> \o Dedup(seen \cup {Head(s)}, Tail(s))

\* The locals of generate_decomposed_answer that are bound when its try block
\* fails at `stage`: all_citations is assigned only after the reply was read.
BoundLocals(stage) ==
    CASE stage = "request" -> {"client"}
      [] stage = "response" -> {"client", "response"}
      [] OTHER -> {"client", "response", "answer", "all_citations"}

\* generate_decomposed_answer: the synthesized answer with deduplicated
\* citations; on an exception the handler builds the concatenation of the
\* sub-answers and reads all_citations, which raises UnboundLocalError when
\* that local is not bound.
GenerateDecomposedAnswer(sub_answers, sub_queries, llm) ==
    IF llm = "ok"
    THEN [result |-> Some([answer |-> <<"synthesized">>,
                           citations |-> Dedup({}, AllCitations(sub_answers)),
                           sub_queries |-> sub_queries]),
          exc |-> None]
    ELSE IF "all_citations" \in BoundLocals(llm)
         THEN [result |-> Some([answer |-> [i \in DOMAIN sub_answers |->
                                                sub_answers[i].answer],
                                citations |-> AllCitations(sub_answers),
                                sub_queries |-> sub_queries]),
               exc |-> None]
         ELSE [result |-> None, exc |-> Some("UnboundLocalError")]

SubQueriesNever(sub_queries) == FALSE

\* `if sub_queries:` - the decomposition branch is taken for a non-empty list.
SubQueriesProduced(sub_queries) == Len(sub_queries) > 0

\* query(...) is called; coreference resolution rewrites the query when a
\* chat history is given.
QueryCall ==
    /\ q_pc = "idle"
    /\ \E a \in QueryArgs : q_args' = Some(a)
    /\ q_pc' = "enhance"
    /\ UNCHANGED <<q_sub_queries, q_sub_answers, q_decomp_ran, q_fusion_ran, q_llm,
                   q_result, q_exc>>
    /\ UNCHANGED notQ

\* Step 2, first part: with use_query_decomposition, query_decomposition is
\* called (it returns [] when no decomposition is needed or its call failed);
\* a non-empty list enters the decomposition branch.
QueryDecompose ==
    /\ q_pc = "enhance"
    /\ IF Val(q_args).use_query_decomposition
       THEN \E n \in 0..MaxSubQueries :
              /\ q_sub_queries' = [i \in 1..n |-> i]
              /\ IF SubQueriesProduced(q_sub_queries')
                 THEN q_pc' = "sub" /\ q_decomp_ran' = TRUE
                 ELSE q_pc' = "second" /\ UNCHANGED q_decomp_ran
       ELSE /\ q_pc' = "second"
            /\ UNCHANGED <<q_sub_queries, q_decomp_ran>>
    /\ UNCHANGED <<q_args, q_sub_answers, q_fusion_ran, q_llm, q_result, q_exc>>
    /\ UNCHANGED notQ

\* The decomposition branch: _single_query for the next sub-query.
QuerySubQuery ==
    /\ q_pc = "sub"
    /\ Len(q_sub_answers) < Len(q_sub_queries)
    /\ \E a \in Answers : q_sub_answers' = Append(q_sub_answers, a)
    /\ UNCHANGED <<q_pc, q_args, q_sub_queries, q_decomp_ran, q_fusion_ran, q_llm,
                   q_result, q_exc>>
    /\ UNCHANGED notQ

\* The decomposition branch: generate_decomposed_answer, then
\* `return final_result`; an exception it raises leaves query().
QuerySynthesize ==
    /\ q_pc = "sub"
    /\ Len(q_sub_answers) = Len(q_sub_queries)
    /\ \E llm \in SynthesisOutcomes :
          LET r == GenerateDecomposedAnswer(q_sub_answers, q_sub_queries, llm)
          IN  /\ q_llm' = llm
              /\ q_result' = r.result
              /\ q_exc' = r.exc
              /\ q_pc' = IF r.exc = None THEN "done" ELSE "raised"
    /\ UNCHANGED <<q_args, q_sub_queries, q_sub_answers, q_decomp_ran, q_fusion_ran>>
    /\ UNCHANGED notQ

\* Step 2, second part, `if use_rag_fusion:`: rag_fusion, one hybrid search
\* per variation, reranking or truncation, generate_answer.
QueryFusion ==
    /\ q_pc = "second"
    /\ Val(q_args).use_rag_fusion
    /\ q_fusion_ran' = TRUE
    /\ \E a \in Answers :
          q_result' = Some([answer |-> <<a.answer>>, citations |-> a.citations,
                            sub_queries |-> <<>>])
    /\ q_pc' = "done"
    /\ UNCHANGED <<q_args, q_sub_queries, q_sub_answers, q_decomp_ran, q_llm, q_exc>>
    /\ UNCHANGED notQ

\* Step 2, second part, `else:`: the standard _single_query.
QuerySingle ==
    /\ q_pc = "second"
    /\ ~Val(q_args).use_rag_fusion
    /\ \E a \in Answers :
          q_result' = Some([answer |-> <<a.answer>>, citations |-> a.citations,
                            sub_queries |-> <<>>])
    /\ q_pc' = "done"
    /\ UNCHANGED <<q_args, q_sub_queries, q_sub_answers, q_decomp_ran, q_fusion_ran,
                   q_llm, q_exc>>
    /\ UNCHANGED notQ

QNext ==
    \/ QueryCall \/ QueryDecompose \/ QuerySubQuery \/ QuerySynthesize
    \/ QueryFusion \/ QuerySingle

InitQuery ==
    /\ QIdle
    /\ IdleButQ

SpecQuery == InitQuery /\ [][QNext]_vars

\* C8: in one call of query, the decomposition branch and RAG-Fusion never
\* both run; when decomposition is enabled and yields at least one sub-query
\* the call ends through the decomposition branch without RAG-Fusion; and
\* RAG-Fusion runs only if it is enabled and decomposition is disabled or
\* yielded no sub-query.
C8_DecompositionExcludesFusion ==
    /\ ~(q_decomp_ran /\ q_fusion_ran)
    /\ q_fusion_ran =>
          /\ Val(q_args).use_rag_fusion
          /\ (~Val(q_args).use_query_decomposition \/ q_sub_queries = <<>>)
    /\ (q_pc \in {"done", "raised"}
           /\ Val(q_args).use_query_decomposition /\ Len(q_sub_queries) >= 1) =>
          (q_decomp_ran /\ ~q_fusion_ran /\ Len(q_sub_answers) = Len(q_sub_queries))

\* Both enhancements were enabled, decomposition produced two sub-queries,
\* and the call returned the synthesized answer.
C8_Witness ==
    /\ q_pc = "done"
    /\ Val(q_args).use_query_decomposition /\ Val(q_args).use_rag_fusion
    /\ Len(q_sub_queries) = 2
    /\ q_decomp_ran
    /\ Val(q_result).answer = <<"synthesized">>

\* C9 as stated: when the synthesis call of a decomposed query fails,
\* generate_decomposed_answer raises nothing and the answer returned is the
\* concatenation of the sub-answers.
C9_Original ==
    (q_decomp_ran /\ q_pc \in {"done", "raised"} /\ q_llm # "ok") =>
        /\ q_exc = None
        /\ q_result # None
        /\ Val(q_result).answer = [i \in DOMAIN q_sub_answers |-> q_sub_answers[i].answer]

(***************************************************************************)
(* PDFRAGPipeline.ingest_pdf (W301-pdf-rag/pipeline.py)                       *)
(***************************************************************************)

\* Number of ingest_pdf calls one behaviour makes.
MaxIngests == 2
\* Largest number of text units in a PDF.
MaxTextUnits == 2

\* Positional arguments ingest_pdf passes to process_pdf.
ProcessPdfArgs == 3
\* Positional parameters process_pdf declares.
ProcessPdfParams == 1

\* A PDF: how many text chunks, captioned images and summarised tables its
\* content gives.
Pdfs == [text : 0..MaxTextUnits, images : 0..1, tables : 0..1]

\* process_images / process_tables: None (use the configured default) or a flag.
IngestFlags == [process_images : {None, Some(TRUE), Some(FALSE)},
                process_tables : {None, Some(TRUE), Some(FALSE)}]

\* A Python call with `nargs` positional arguments of a function declaring
\* `nparams` parameters raises TypeError when there are too many arguments.
CallAccepted(nargs, nparams) == nargs <= nparams

\* process_pdf(pdf_path): text, images and tables are all extracted.
ProcessPdf(pdf) == <<pdf.text, pdf.images, pdf.tables>>

\* prepare_all_chunks: text chunks, then image chunks, then table chunks.
PrepareAllChunks(extracted) ==
    [i \in 1..extracted[1] |-> "text"] \o [i \in 1..extracted[2] |-> "image"]
        \o [i \in 1..extracted[3] |-> "table"]

\* One whole ingest_pdf call.
IngestPdf ==
    /\ ing_calls < MaxIngests
    /\ ing_calls' = ing_calls + 1
    /\ \E pdf \in Pdfs : \E flags \in IngestFlags :
          /\ ing_pdf' = Some(pdf)
          /\ ing_flags' = Some(flags)
          /\ IF ~CallAccepted(ProcessPdfArgs, ProcessPdfParams)
             THEN /\ ing_exc' = Some("TypeError")
                  /\ ing_result' = None
                  /\ UNCHANGED <<ing_embeds, ing_index>>
             ELSE LET chunks == PrepareAllChunks(ProcessPdf(pdf))
                  IN  /\ ing_exc' = None
                      /\ IF chunks = <<>>
                         THEN /\ ing_result' = Some([success |-> FALSE, chunks |-> 0])
                              /\ UNCHANGED <<ing_embeds, ing_index>>
                         ELSE /\ ing_embeds' = ing_embeds + 1
                              /\ ing_index' = Some((IF ing_index = None THEN <<>>
                                                    ELSE Val(ing_index)) \o chunks)
                              /\ ing_result' = Some(
                                    [success |-> TRUE, chunks |-> Len(chunks),
                                     text_chunks |-> ProcessPdf(pdf)[1],
                                     image_chunks |-> ProcessPdf(pdf)[2],
                                     table_chunks |-> ProcessPdf(pdf)[3]])
    /\ UNCHANGED notIng

IngNext == IngestPdf

InitIngest ==
    /\ IngIdle
    /\ IdleButIng

SpecIngest == InitIngest /\ [][IngNext]_vars

\* C10 as stated: an ingest_pdf call on a PDF that yields zero chunks returns
\* a result flagged unsuccessful, having made no embedding call and having
\* neither created nor written the index.
C10_Original ==
    (ing_calls > 0 /\ PrepareAllChunks(ProcessPdf(Val(ing_pdf))) = <<>>) =>
        /\ ing_result # None
        /\ ~Val(ing_result).success
        /\ ing_embeds = 0
        /\ ing_index = None

\* C11 as stated: an ingest_pdf call with image processing or table
\* processing turned off, on a PDF that has text, completes: it returns a
\* result with no image units (no table units) and with all the text units.
C11_Original ==
    (/\ ing_calls > 0
     /\ Val(ing_pdf).text > 0
     /\ \/ Val(ing_flags).process_images = Some(FALSE)
        \/ Val(ing_flags).process_tables = Some(FALSE)) =>
        /\ ing_exc = None
        /\ ing_result # None
        /\ Val(ing_result).success
        /\ Val(ing_result).text_chunks = Val(ing_pdf).text
        /\ Val(ing_flags).process_images = Some(FALSE) => Val(ing_result).image_chunks = 0
        /\ Val(ing_flags).process_tables = Some(FALSE) => Val(ing_result).table_chunks = 0

(***************************************************************************)
(* batch_embed (W301-pdf-rag/embedding.py)                                 *)
(***************************************************************************)

\* Largest number of texts handed to batch_embed.
MaxTexts == 3
\* Largest batch_size.
MaxBatch == 2

\* Values of the environment variable USE_OLLAMA_EMBEDDINGS (None: unset).
EnvValues == {None, Some("true"), Some("True"), Some("false"), Some("1")}

\* use_ollama after the auto-detection of lines 141-142:
\* os.getenv(name, 'false').lower() == 'true' when the argument is None.
UseOllama(use_ollama, env) ==
    LET getenv == IF env = None THEN "false" ELSE Val(env)
        lower == IF getenv = "True" THEN "true" ELSE getenv
    IN  IF use_ollama = None THEN lower = "true" ELSE Val(use_ollama)

SelectBackendOpenAIFirst(use_ollama, use_openai) ==
    IF use_openai THEN "openai" ELSE IF use_ollama THEN "ollama" ELSE "local"

\* The if / elif / else of the batch loop.
SelectBackend(use_ollama, use_openai) ==
    IF use_ollama THEN "ollama" ELSE IF use_openai THEN "openai" ELSE "local"

\* batch_embed(texts, batch_size, use_openai, use_ollama) is about to be called.
EmbedInit ==
    /\ fr_pc = "embed"
    /\ \E n \in 0..MaxTexts : \E b \in 1..MaxBatch : \E uo \in BOOLEAN :
       \E ul \in {None, Some(TRUE), Some(FALSE)} : \E env \in EnvValues :
          fr_args = Some([texts |-> n, batch_size |-> b, use_openai |-> uo,
                          use_ollama |-> ul, env |-> env])
    /\ fr_locals = Some([i |-> 0, all_embeddings |-> 0, calls |-> <<>>])
    /\ fr_ret = None

\* One iteration of the batch loop: the selected backend embeds the batch, or
\* raises once its retries are exhausted, which ends batch_embed.
EmbedBatch ==
    /\ fr_pc = "embed"
    /\ Val(fr_locals).i < Val(fr_args).texts
    /\ LET a == Val(fr_args)
           l == Val(fr_locals)
           batch == Min(a.batch_size, a.texts - l.i)
           backend == SelectBackend(UseOllama(a.use_ollama, a.env), a.use_openai)
       IN  \/ /\ fr_locals' = Some([i |-> l.i + a.batch_size,
                                    all_embeddings |-> l.all_embeddings + batch,
                                    calls |-> Append(l.calls, backend)])
              /\ UNCHANGED <<fr_pc, fr_ret>>
           \/ /\ fr_locals' = Some([l EXCEPT !.calls = Append(l.calls, backend)])
              /\ fr_pc' = "raised"
              /\ fr_ret' = Some("Exception")
    /\ UNCHANGED fr_args
    /\ UNCHANGED notFr

\* The loop is over: return all_embeddings.
EmbedReturn ==
    /\ fr_pc = "embed"
    /\ Val(fr_locals).i >= Val(fr_args).texts
    /\ fr_pc' = "returned"
    /\ fr_ret' = Some(Val(fr_locals).all_embeddings)
    /\ UNCHANGED <<fr_args, fr_locals>>
    /\ UNCHANGED notFr

EmbedNext == EmbedBatch \/ EmbedReturn

InitEmbed ==
    /\ EmbedInit
    /\ IdleButFr

SpecEmbed == InitEmbed /\ [][EmbedNext]_vars

\* C12 (as amended): every batch of one batch_embed call goes to the local
\* daemon when use_ollama is true - given explicitly or, when it is not given,
\* read from the environment flag (equal to "true" in any letter case);
\* otherwise to the hosted provider when use_openai is set; otherwise to the
\* local HTTP service.
C12_BackendPriority ==
    fr_pc # "idle" =>
        LET a == Val(fr_args)
            calls == Val(fr_locals).calls
            ollama == \/ a.use_ollama = Some(TRUE)
                      \/ a.use_ollama = None /\ a.env \in {Some("true"), Some("True")}
        IN  \A k \in DOMAIN calls :
               /\ ollama => calls[k] = "ollama"
               /\ (~ollama /\ a.use_openai) => calls[k] = "openai"
               /\ (~ollama /\ ~a.use_openai) => calls[k] = "local"

\* C12 as stated: an explicit use_openai flag wins; otherwise the environment
\* flag selects the local daemon; otherwise the local HTTP service is used.
C12_Original ==
    fr_pc # "idle" =>
        LET a == Val(fr_args)
            calls == Val(fr_locals).calls
            flag == a.env \in {Some("true"), Some("True")}
        IN  \A k \in DOMAIN calls :
               /\ a.use_openai => calls[k] = "openai"
               /\ (~a.use_openai /\ flag) => calls[k] = "ollama"
               /\ (~a.use_openai /\ ~flag) => calls[k] = "local"

\* A call with use_openai set and the environment flag on returned after two
\* batches, both embedded by the local daemon.
C12_Witness ==
    /\ fr_pc = "returned"
    /\ Val(fr_args).use_openai /\ Val(fr_args).use_ollama = None
    /\ Val(fr_args).env = Some("True")
    /\ Val(fr_locals).calls = <<"ollama", "ollama">>
    /\ Val(fr_ret) = 3

(***************************************************************************)
(* rerank_documents / rerank_with_api (W301-pdf-rag/reranking.py)          *)
(***************************************************************************)

\* Largest number of retrieved documents handed to the reranker.
MaxDocs == 4

\* RAGConfig.TOP_K_RERANK
TopKRerank == 5

\* A score of the rerank reply: a number, or JSON null.
Num(v) == [null |-> FALSE, v |-> v]
Null == [null |-> TRUE, v |-> 0]
ScoreValues == {Num(1), Num(2), Null}

\* The retrieved documents, in retrieval order, without a rerank_score.
Docs(n) == [i \in 1..n |-> [id |-> i, rerank_score |-> None]]

\* What the rerank request gives: it fails (connection, HTTP status, bad
\* JSON), or it yields a reply whose `scores` list may be of any length.
Replies == {[ok |-> FALSE, scores |-> <<>>]}
               \cup {[ok |-> TRUE, scores |-> s] : s \in SeqsUpTo(ScoreValues, MaxDocs)}

\* documents[idx]['rerank_score'] = scores[idx] for every document.
AttachScores(docs, scores) ==
    [i \in DOMAIN docs |-> [docs[i] EXCEPT !.rerank_score = Some(scores[i])]]

RECURSIVE SortByScore(_, _)
\* documents.sort(key=rerank_score, reverse=True) on numeric scores: stable,
\* descending.  `done` is sorted, `rest` is still to be inserted.
SortByScore(done, rest) ==
    IF rest = <<>> THEN done
    ELSE LET x == Head(rest)
             k == Cardinality({i \in DOMAIN done :
                                  Val(done[i].rerank_score).v >= Val(x.rerank_score).v})
         IN  SortByScore(SubSeq(done, 1, k) \o <<x>> \o SubSeq(done, k + 1, Len(done)),
                         Tail(rest))

\* The list as documents.sort(key=rerank_score, reverse=True) leaves it when a
\* null score makes a comparison raise TypeError.  CPython sorts the reversed
\* list: it first measures the run at its start and then inserts the later
\* elements one by one, so the documents after the last null are already in
\* descending order when the null is reached, unless that run reached the
\* null, in which case nothing has moved.  The sort then reverses the list
\* back and re-raises.
FailedSort(s) ==
    LET last == CHOOSE i \in DOMAIN s :
                   /\ Val(s[i].rerank_score).null
                   /\ \A j \in DOMAIN s : Val(s[j].rerank_score).null => j <= i
        t == SubSeq(s, last + 1, Len(s))
        m == Len(t)
        v(i) == Val(t[m + 1 - i].rerank_score).v
        desc == v(2) < v(1)
        WholeRun == \A i \in 2..(m - 1) :
                       IF desc THEN v(i + 1) < v(i) ELSE ~(v(i + 1) < v(i))
    IN  IF m < 2 \/ WholeRun THEN s
        ELSE SubSeq(s, 1, last) \o SortByScore(<<>>, t)

\* The guard of the score attachment: the reply has as many scores as there
\* are documents.
ScoresUsable(docs, scores) == Len(scores) = Len(docs)

\* rerank_with_api: the return value, with whether the exception handler
\* produced it.  Comparing a null score with anything makes list.sort raise
\* TypeError; the handler returns the list as the sort left it.
RerankWithApi(docs, top_k, reply) ==
    LET k == IF top_k = None THEN TopKRerank ELSE Val(top_k)
    IN  IF docs = <<>> THEN {[docs |-> <<>>, handled |-> FALSE]}
        ELSE IF ~reply.ok THEN {[docs |-> Take(docs, k), handled |-> TRUE]}
        ELSE IF ~ScoresUsable(docs, reply.scores)
             THEN {[docs |-> Take(docs, k), handled |-> FALSE]}
        ELSE LET scored == AttachScores(docs, reply.scores)
                 nulls == {i \in DOMAIN scored : Val(scored[i].rerank_score).null}
             IN  IF Len(scored) = 1
                 THEN {[docs |-> Take(scored, k), handled |-> FALSE]}
                 ELSE IF nulls = {}
                 THEN {[docs |-> Take(SortByScore(<<>>, scored), k), handled |-> FALSE]}
                 ELSE {[docs |-> Take(FailedSort(scored), k), handled |-> TRUE]}

\* rerank_documents(query, documents, method, top_k) with method = 'api' is
\* about to be called, and the rerank service will answer with `reply`.
RerankInit ==
    /\ fr_pc = "rerank"
    /\ \E n \in 0..MaxDocs : \E tk \in {None, Some(2)} : \E r \in Replies :
          fr_args = Some([documents |-> Docs(n), top_k |-> tk, reply |-> r])
    /\ fr_locals = None
    /\ fr_ret = None

\* The whole call.
RerankDocuments ==
    /\ fr_pc = "rerank"
    /\ \E r \in RerankWithApi(Val(fr_args).documents, Val(fr_args).top_k,
                              Val(fr_args).reply) :
          /\ fr_ret' = Some(r.docs)
          /\ fr_locals' = Some([handled |-> r.handled])
    /\ fr_pc' = "returned"
    /\ UNCHANGED fr_args
    /\ UNCHANGED notFr

RerankNext == RerankDocuments

InitRerank ==
    /\ RerankInit
    /\ IdleButFr

SpecRerank == InitRerank /\ [][RerankNext]_vars

\* C13 as stated: reranking returns (never raises); whenever the rerank call
\* failed, what it returns is the documents in their retrieval order, cut to
\* top-k; and the returned documents carry scores, and are sorted by them,
\* only if the reply had exactly one score per document.
C13_Original ==
    fr_pc = "returned" =>
        LET a == Val(fr_args)
            out == Val(fr_ret)
            k == IF a.top_k = None THEN TopKRerank ELSE Val(a.top_k)
            ids == [i \in DOMAIN out |-> out[i].id]
        IN  /\ Val(fr_locals).handled => ids = [i \in 1..Min(k, Len(a.documents)) |-> i]
            /\ Len(a.reply.scores) # Len(a.documents) =>
                  /\ ids = [i \in 1..Min(k, Len(a.documents)) |-> i]
                  /\ \A i \in DOMAIN out : out[i].rerank_score = None

(***************************************************************************)
(* generate_answer (W301-pdf-rag/answer_generation.py)                     *)
(***************************************************************************)

\* Largest number of retrieved documents handed to generate_answer.
MaxSources == 3

\* Largest number of [digits] markers in a generated answer.
MaxMarkers == 3

\* The digit strings that can stand between the brackets of a marker, as
\* re.findall(r'\[(\d+)\]', answer) returns them.
MarkerPool == {<<1>>, <<2>>, <<0, 1>>, <<7>>, <<0>>}

\* The answers the model can give, reduced to their markers in text order.
GeneratedAnswers == SeqsUpTo(MarkerPool, MaxMarkers)

\* The retrieved documents: the i-th one comes from page i.
Sources(n) == [i \in 1..n |-> [doc_type |-> "text", page_num |-> i]]

RECURSIVE ToInt(_)
\* int(c) for a string of decimal digits.
ToInt(digits) ==
    IF digits = <<>> THEN 0
    ELSE 10 * ToInt(SubSeq(digits, 1, Len(digits) - 1)) + digits[Len(digits)]

RECURSIVE CitationDetails(_, _, _)
\* citations = list(set(findall)); citations = [int(c) ...]; citations.sort();
\* then one entry for every element of that list that lies in 1..len(documents).
\* `found` is the set of distinct digit strings, `k` the number being handled.
CitationDetails(k, documents, found) ==
    IF k > Len(documents) THEN <<>>
    ELSE LET copies == Cardinality({c \in found : ToInt(c) = k})
             entry == [citation_number |-> k,
                       doc_type |-> documents[k].doc_type,
                       page_num |-> documents[k].page_num]
         IN  [i \in 1..copies |-> entry] \o CitationDetails(k + 1, documents, found)

HasNoDocumentsNever(documents) == FALSE

\* `if not documents`
HasNoDocuments(documents) == documents = <<>>

\* generate_answer(query, documents) is about to be called.
AnswerInit ==
    /\ fr_pc = "generate"
    /\ \E n \in 0..MaxSources : fr_args = Some([documents |-> Sources(n)])
    /\ fr_locals = Some([answer |-> None, llm_calls |-> 0])
    /\ fr_ret = None

\* The early return for an empty document list; otherwise the prompt is built.
AnswerCheckDocuments ==
    /\ fr_pc = "generate"
    /\ IF HasNoDocuments(Val(fr_args).documents)
       THEN /\ fr_ret' = Some([answer |-> [kind |-> "no_relevant_information", markers |-> <<>>],
                               citations |-> <<>>,
                               num_sources |-> 0])
            /\ fr_pc' = "returned"
       ELSE /\ fr_pc' = "llm"
            /\ UNCHANGED fr_ret
    /\ UNCHANGED <<fr_args, fr_locals>>
    /\ UNCHANGED notFr

\* client.chat.completions.create: it yields an answer, or it raises and the
\* handler returns the error answer without citations.
AnswerCallLLM ==
    /\ fr_pc = "llm"
    /\ \/ \E a \in GeneratedAnswers :
             /\ fr_locals' = Some([answer |-> Some(a),
                                   llm_calls |-> Val(fr_locals).llm_calls + 1])
             /\ fr_pc' = "cite"
             /\ UNCHANGED fr_ret
       \/ /\ fr_locals' = Some([Val(fr_locals) EXCEPT !.llm_calls = @ + 1])
          /\ fr_ret' = Some([answer |-> [kind |-> "error", markers |-> <<>>],
                             citations |-> <<>>,
                             num_sources |-> Len(Val(fr_args).documents)])
          /\ fr_pc' = "returned"
    /\ UNCHANGED fr_args
    /\ UNCHANGED notFr

\* Citation extraction and the return of the answer.
AnswerCite ==
    /\ fr_pc = "cite"
    /\ LET a == Val(Val(fr_locals).answer)
           found == {a[i] : i \in DOMAIN a}
       IN  fr_ret' = Some([answer |-> [kind |-> "generated", markers |-> a],
                           citations |-> CitationDetails(1, Val(fr_args).documents, found),
                           num_sources |-> Len(Val(fr_args).documents)])
    /\ fr_pc' = "returned"
    /\ UNCHANGED <<fr_args, fr_locals>>
    /\ UNCHANGED notFr

AnswerNext ==
    \/ AnswerCheckDocuments
    \/ AnswerCallLLM
    \/ AnswerCite

InitAnswer ==
    /\ AnswerInit
    /\ IdleButFr

SpecAnswer == InitAnswer /\ [][AnswerNext]_vars

\* C14 as stated: for a generated answer and n retrieved documents, the
\* citation list has exactly one entry for each number k in 1..n that some
\* [k] marker of the answer denotes, the entries are in ascending order of k,
\* each is resolved to the k-th document, and no other entry is present.
C14_Original ==
    (fr_pc = "returned" /\ Val(fr_ret).answer.kind = "generated") =>
        LET a == Val(fr_ret).answer.markers
            docs == Val(fr_args).documents
            cs == Val(fr_ret).citations
            cited == {ToInt(a[i]) : i \in DOMAIN a} \cap (1..Len(docs))
        IN  /\ {cs[i].citation_number : i \in DOMAIN cs} = cited
            /\ Len(cs) = Cardinality(cited)
            /\ \A i, j \in DOMAIN cs :
                  i < j => cs[i].citation_number < cs[j].citation_number
            /\ \A i \in DOMAIN cs :
                  cs[i].page_num = docs[cs[i].citation_number].page_num

\* C15: a call with an empty document list returns the fixed "no relevant
\* information" answer with no citations, and the model is never called.
C15_EmptyDocumentsShortCircuit ==
    (fr_args # None /\ Val(fr_args).documents = <<>>) =>
        /\ fr_pc \in {"generate", "returned"}
        /\ Val(fr_locals).llm_calls = 0
        /\ fr_pc = "returned" =>
              /\ Val(fr_ret).answer.kind = "no_relevant_information"
              /\ Val(fr_ret).citations = <<>>

C15_Witness ==
    /\ fr_pc = "returned"
    /\ Val(fr_args).documents = <<>>
    /\ Val(fr_ret).answer.kind = "no_relevant_information"
    /\ Val(fr_ret).num_sources = 0

(***************************************************************************)
(* hybrid_search_rrf (W301-pdf-rag/retrieval.py)                           *)
(***************************************************************************)

\* Number of distinct indexed documents that a search can hit.
MaxIds == 3

\* Largest number of hits in one result list (top_k of the searches).
MaxHits == 3

\* RAGConfig.RRF_K
RRF_K == 60

\* Scores are fractions, kept unreduced and compared by cross-multiplication.
Frac(n, d) == [num |-> n, den |-> d]
FracAdd(a, b) == Frac(a.num * b.den + b.num * a.den, a.den * b.den)
FracEq(a, b) == a.num * b.den = b.num * a.den
FracGeq(a, b) == a.num * b.den >= b.num * a.den

\* A result list as keyword_search / vector_search build it: the hits of one
\* search carry distinct ids and rank = position in the list.
HitLists ==
    { [i \in DOMAIN s |-> [id |-> s[i], rank |-> i]] :
        s \in { t \in SeqsUpTo(1..MaxIds, MaxHits) :
                  \A i, j \in DOMAIN t : i # j => t[i] # t[j] } }

ReciprocalZeroBased(k, rank) == Frac(1, k + rank - 1)

\* 1 / (k + hit['rank'])
Reciprocal(k, rank) == Frac(1, k + rank)

RECURSIVE Accumulate(_, _, _)
\* One `for hit in ...` loop over a result list: a new id gets an entry with
\* score 0 at the end of the dict, then the hit's reciprocal rank is added.
Accumulate(scores, hits, k) ==
    IF hits = <<>> THEN scores
    ELSE LET hit == Head(hits)
             known == \E i \in DOMAIN scores : scores[i].id = hit.id
             with == IF known THEN scores
                     ELSE Append(scores, [id |-> hit.id, score |-> Frac(0, 1)])
             added == [i \in DOMAIN with |->
                         IF with[i].id = hit.id
                         THEN [with[i] EXCEPT !.score = FracAdd(@, Reciprocal(k, hit.rank))]
                         ELSE with[i]]
         IN  Accumulate(added, Tail(hits), k)

RECURSIVE RankedDocs(_, _)
\* sorted(scores.values(), key=score, reverse=True): stable, descending.
RankedDocs(done, rest) ==
    IF rest = <<>> THEN done
    ELSE LET x == Head(rest)
             n == Cardinality({i \in DOMAIN done : FracGeq(done[i].score, x.score)})
         IN  RankedDocs(SubSeq(done, 1, n) \o <<x>> \o SubSeq(done, n + 1, Len(done)),
                        Tail(rest))

\* hybrid_search_rrf(keyword_hits, vector_hits) is about to be called with the
\* default k.
RrfInit ==
    /\ fr_pc = "rrf_keyword"
    /\ \E kw \in HitLists : \E vec \in HitLists :
          fr_args = Some([keyword_hits |-> kw, vector_hits |-> vec, k |-> None])
    /\ fr_locals = Some([scores |-> <<>>])
    /\ fr_ret = None

\* `if k is None: k = RAGConfig.RRF_K`
RrfK == IF Val(fr_args).k = None THEN RRF_K ELSE Val(Val(fr_args).k)

\* The loop over the keyword hits.
RrfKeywordHits ==
    /\ fr_pc = "rrf_keyword"
    /\ fr_locals' = Some([scores |-> Accumulate(Val(fr_locals).scores,
                                                Val(fr_args).keyword_hits, RrfK)])
    /\ fr_pc' = "rrf_vector"
    /\ UNCHANGED <<fr_args, fr_ret>>
    /\ UNCHANGED notFr

\* The loop over the vector hits.
RrfVectorHits ==
    /\ fr_pc = "rrf_vector"
    /\ fr_locals' = Some([scores |-> Accumulate(Val(fr_locals).scores,
                                                Val(fr_args).vector_hits, RrfK)])
    /\ fr_pc' = "rrf_sort"
    /\ UNCHANGED <<fr_args, fr_ret>>
    /\ UNCHANGED notFr

\* Sorting by fused score and formatting of the final results (the clean-up
\* of the text field leaves ids, ranks and scores alone).
RrfRank ==
    /\ fr_pc = "rrf_sort"
    /\ LET ranked == RankedDocs(<<>>, Val(fr_locals).scores)
       IN  fr_ret' = Some([idx \in DOMAIN ranked |->
                             [id |-> ranked[idx].id,
                              rank |-> idx,
                              rrf_score |-> ranked[idx].score]])
    /\ fr_pc' = "returned"
    /\ UNCHANGED <<fr_args, fr_locals>>
    /\ UNCHANGED notFr

RrfNext ==
    \/ RrfKeywordHits
    \/ RrfVectorHits
    \/ RrfRank

InitRrf ==
    /\ RrfInit
    /\ IdleButFr

SpecRrf == InitRrf /\ [][RrfNext]_vars

\* C16: with k = 60 the fused score of every returned document is the sum of
\* 1/(60 + rank) over the lists (keyword, vector) that contain it -- 1/61 for
\* a document ranked first by keyword only, 1/61 + 1/61 for one ranked first
\* by both -- and exactly the documents of the two lists are returned, each
\* once.
C16_FusedScoreIsReciprocalRankSum ==
    fr_pc = "returned" =>
        LET kw == Val(fr_args).keyword_hits
            vec == Val(fr_args).vector_hits
            out == Val(fr_ret)
            Term(hits, id) ==
                IF \E i \in DOMAIN hits : hits[i].id = id
                THEN Frac(1, 60 + (CHOOSE i \in DOMAIN hits : hits[i].id = id))
                ELSE Frac(0, 1)
        IN  /\ {out[i].id : i \in DOMAIN out}
                 = {kw[i].id : i \in DOMAIN kw} \cup {vec[i].id : i \in DOMAIN vec}
            /\ \A i, j \in DOMAIN out : i # j => out[i].id # out[j].id
            /\ \A i \in DOMAIN out :
                  FracEq(out[i].rrf_score,
                         FracAdd(Term(kw, out[i].id), Term(vec, out[i].id)))
            /\ \A i \in DOMAIN out :
                  /\ (kw # <<>> /\ kw[1].id = out[i].id
                        /\ \A j \in DOMAIN vec : vec[j].id # out[i].id)
                       => FracEq(out[i].rrf_score, Frac(1, 61))
                  /\ (kw # <<>> /\ vec # <<>> /\ kw[1].id = out[i].id /\ vec[1].id = out[i].id)
                       => FracEq(out[i].rrf_score, Frac(2, 61))

C16_Witness ==
    /\ fr_pc = "returned"
    /\ Len(Val(fr_args).keyword_hits) = 2
    /\ Len(Val(fr_args).vector_hits) = 2
    /\ Val(fr_args).keyword_hits[1].id = 1
    /\ Val(fr_args).vector_hits[1].id = 1
    /\ Val(fr_args).keyword_hits[2].id = 2
    /\ Val(fr_args).vector_hits[2].id = 3
    /\ Len(Val(fr_ret)) = 3
    /\ Val(fr_ret)[1].id = 1
    /\ Val(fr_ret)[1].rrf_score = Frac(122, 3721)

(***************************************************************************)
(* RequestsAmazonScraper._get_page                                         *)
(* (W201b-web_crawler/src/scraper/requests_scraper.py)                     *)
(***************************************************************************)

\* Default of the `retries` parameter; no caller passes another value.
GetPageRetries == 3

\* What session.get can give: a network-level failure (connection error,
\* timeout), or a response with a status and a body.  The body is an ordinary
\* page, a page holding one of the blocked indicators, or a page holding the
\* words "Service Unavailable".
Fetches ==
    {[kind |-> "network_error", status |-> 0, text |-> "none"]}
        \cup [kind : {"response"},
              status : {200, 404, 503},
              text : {"page", "captcha", "Service Unavailable"}]

\* response.raise_for_status(): HTTPError for a 4xx or 5xx status.
RaisesForStatus(f) == f.status >= 400

\* _is_blocked_response(response)
IsBlockedResponse(f) ==
    \/ f.text = "captcha"
    \/ f.status = 503
    \/ f.text = "Service Unavailable"

\* _get_page(url) is about to be called.
GetPageInit ==
    /\ fr_pc = "get_page"
    /\ fr_args = Some([url |-> "url", retries |-> GetPageRetries])
    /\ fr_locals = Some([attempt |-> 0, log |-> <<>>, errors |-> 0])
    /\ fr_ret = None

\* One pass of `for attempt in range(retries)`: the fetch, the status check,
\* the blocked check, and the sleep or the return that follows.  `log` keeps
\* what each attempt fetched and how long it slept afterwards.
GetPageAttempt ==
    /\ fr_pc = "get_page"
    /\ \E f \in Fetches :
          LET l == Val(fr_locals)
              attempt == l.attempt
              last == ~(attempt < Val(fr_args).retries - 1)
              failed == f.kind = "network_error" \/ RaisesForStatus(f)
              blocked == ~failed /\ IsBlockedResponse(f)
              wait == IF last THEN 0
                      ELSE IF failed THEN 2 * (attempt + 1)
                      ELSE IF blocked THEN 5 * (attempt + 1)
                      ELSE 0
          IN  /\ fr_locals' = Some([attempt |-> attempt + 1,
                                    log |-> Append(l.log, [fetch |-> f, wait |-> wait]),
                                    errors |-> IF failed /\ last THEN l.errors + 1
                                               ELSE l.errors])
              /\ IF ~failed /\ ~blocked
                 THEN fr_ret' = Some("soup") /\ fr_pc' = "returned"
                 ELSE IF last
                 THEN fr_ret' = Some("None") /\ fr_pc' = "returned"
                 ELSE UNCHANGED <<fr_ret, fr_pc>>
    /\ UNCHANGED fr_args
    /\ UNCHANGED notFr

GetPageNext == GetPageAttempt

InitGetPage ==
    /\ GetPageInit
    /\ IdleButFr

SpecGetPage == InitGetPage /\ [][GetPageNext]_vars

\* C17 as stated: _get_page fetches a URL at most 3 times; an attempt that is
\* followed by another one is followed after 5 x attempt seconds when its
\* response was a blocked one (a blocked phrase in the page text, HTTP 503, or
\* "Service Unavailable"), and after 2 x attempt seconds when it failed at
\* network level.
C17_Original ==
    LET log == Val(fr_locals).log
    IN  /\ Len(log) <= 3
        /\ \A i \in DOMAIN log :
              i < Len(log) =>
                  LET f == log[i].fetch
                  IN  /\ (f.kind = "response"
                            /\ (f.text \in {"captcha", "Service Unavailable"} \/ f.status = 503))
                         => log[i].wait = 5 * i
                      /\ f.kind = "network_error" => log[i].wait = 2 * i

(***************************************************************************)
(* LangChainRAG (W501/langchain_rag.py), as the web service of W501/app.py *)
(* uses it: one object per process, persisted under one directory          *)
(***************************************************************************)

\* Largest number of chunks the index holds in the model.
MaxChunks == 3

\* Largest number of chunks one add_documents call brings.
MaxAdd == 2

\* The persist directory does not exist.
NoDirectory == [exists |-> FALSE, index |-> None, count |-> None]

\* How _save_vectorstore can end: it saves index and counter, os.makedirs
\* raises (only when the directory has to be created), save_local raises in
\* the existing directory, or the counter file cannot be opened for writing
\* after the index was saved.
SaveOutcomes(disk) ==
    {"saved", "save_local_failed", "count_failed"}
        \cup (IF disk.exists THEN {} ELSE {"makedirs_failed"})

\* The directory after _save_vectorstore.
DiskAfterSave(disk, outcome, chunks, count) ==
    CASE outcome = "saved" ->
            [exists |-> TRUE, index |-> Some(chunks), count |-> Some(count)]
      [] outcome = "save_local_failed" -> [disk EXCEPT !.exists = TRUE]
      [] outcome = "count_failed" ->
            [exists |-> TRUE, index |-> Some(chunks), count |-> disk.count]
      [] outcome = "makedirs_failed" -> disk

\* add_documents(documents) with n documents.
RagAddDocuments ==
    \E n \in 0..MaxAdd :
       LET held == IF rag_vectorstore = None THEN 0 ELSE Val(rag_vectorstore)
       IN  /\ held + n <= MaxChunks
           /\ rag_count + n <= MaxChunks
           /\ \/ /\ n = 0
                 /\ rag_last' = [op |-> "add", outcome |-> "returned"]
                 /\ UNCHANGED <<rag_disk, rag_vectorstore, rag_chain, rag_count>>
              \/ \* embedding the documents raises: nothing was assigned yet
                 /\ n > 0
                 /\ rag_last' = [op |-> "add", outcome |-> "raised"]
                 /\ UNCHANGED <<rag_disk, rag_vectorstore, rag_chain, rag_count>>
              \/ /\ n > 0
                 /\ rag_vectorstore' = Some(held + n)
                 /\ rag_count' = rag_count + n
                 /\ \E o \in SaveOutcomes(rag_disk) :
                       /\ rag_disk' = DiskAfterSave(rag_disk, o, held + n, rag_count + n)
                       /\ rag_chain' = IF o = "saved" THEN TRUE ELSE rag_chain
                       /\ rag_last' = [op |-> "add",
                                       outcome |-> IF o = "saved" THEN "returned" ELSE "raised"]
           /\ UNCHANGED notRag

\* clear_database(): everything it does is guarded by
\* `if os.path.exists(self.persist_directory)`.
RagClearDatabase ==
    /\ IF rag_disk.exists
       THEN \/ /\ rag_disk' = NoDirectory
               /\ rag_vectorstore' = None
               /\ rag_chain' = FALSE
               /\ rag_count' = 0
               /\ rag_last' = [op |-> "clear", outcome |-> "returned"]
            \/ \* shutil.rmtree raises
               /\ rag_last' = [op |-> "clear", outcome |-> "raised"]
               /\ UNCHANGED <<rag_disk, rag_vectorstore, rag_chain, rag_count>>
       ELSE /\ rag_last' = [op |-> "clear", outcome |-> "returned"]
            /\ UNCHANGED <<rag_disk, rag_vectorstore, rag_chain, rag_count>>
    /\ UNCHANGED notRag

\* The process is restarted: __init__ and _load_existing_vectorstore on the
\* directory as the previous process left it.
RagRestart ==
    /\ rag_last' = [op |-> "restart", outcome |-> "returned"]
    /\ IF rag_disk.exists /\ rag_disk.index # None
       THEN \/ /\ rag_vectorstore' = rag_disk.index
               /\ rag_count' = IF rag_disk.count # None THEN Val(rag_disk.count) ELSE 0
               /\ rag_chain' = TRUE
            \/ \* FAISS.load_local raises; the handler prints a warning
               /\ rag_vectorstore' = None
               /\ rag_count' = 0
               /\ rag_chain' = FALSE
       ELSE /\ rag_vectorstore' = None
            /\ rag_count' = 0
            /\ rag_chain' = FALSE
    /\ UNCHANGED rag_disk
    /\ UNCHANGED notRag

RagNext ==
    \/ RagAddDocuments
    \/ RagClearDatabase
    \/ RagRestart

InitRag ==
    /\ RagIdle
    /\ IdleButRag

SpecRag == InitRag /\ [][RagNext]_vars

\* C18 as stated: whenever clear_database has returned, whatever the state
\* before it, the persist directory does not exist, there is no vector store
\* and no retrieval chain, and the document count is 0.
C18_Original ==
    (rag_last = [op |-> "clear", outcome |-> "returned"]) =>
        /\ ~rag_disk.exists
        /\ rag_vectorstore = None
        /\ ~rag_chain
        /\ rag_count = 0

(***************************************************************************)
(* KnowledgeBase (W601/excel_processor.py) and the upload / delete         *)
(* endpoints of W601/app.py                                                *)
(***************************************************************************)

\* The paths under KNOWLEDGE_BASE_DIR that requests name.
KbPaths == {"sales.xlsx", "stock.csv", "staff.xlsx"}

\* The file ids.
KbIds == {"id_a", "id_b"}

\* _generate_file_id: the first 12 hex digits of the MD5 of the path.  The
\* hash is not injective: two of the paths share an id.
GenerateFileId(path) ==
    CASE path = "sales.xlsx" -> "id_a"
      [] path = "stock.csv" -> "id_b"
      [] path = "staff.xlsx" -> "id_a"

DelEntryKept(map, id) == map

\* del map[file_id]
DelEntry(map, id) == [map EXCEPT ![id] = None]

\* POST /api/upload: the file is written, then KnowledgeBase.add_file loads
\* it and records processor and summary.  load_file can fail (False), and
\* get_file_summary can raise after the processor was recorded.
KbUploadFile ==
    \E path \in KbPaths : \E o \in {"ok", "load_failed", "summary_raised"} :
       LET id == GenerateFileId(path)
       IN  /\ kb_disk' = kb_disk \cup {path}
           /\ kb_files' = IF o = "load_failed" THEN kb_files
                          ELSE [kb_files EXCEPT ![id] = Some(path)]
           /\ kb_index' = IF o = "ok" THEN [kb_index EXCEPT ![id] = Some(path)]
                          ELSE kb_index
           /\ kb_last' = [op |-> "upload", id |-> id, path |-> path, existed |-> FALSE,
                          outcome |-> IF o = "ok" THEN "success" ELSE "500"]
           /\ UNCHANGED notKb

\* DELETE /api/files/{file_id}
KbDeleteFile ==
    \E id \in KbIds :
       /\ IF kb_files[id] = None
          THEN /\ kb_last' = [op |-> "delete", id |-> id, path |-> "none",
                              existed |-> FALSE, outcome |-> "404"]
               /\ UNCHANGED <<kb_disk, kb_files, kb_index>>
          ELSE IF kb_index[id] = None
          THEN \* knowledge_base.index[file_id] raises KeyError
               /\ kb_last' = [op |-> "delete", id |-> id, path |-> "none",
                              existed |-> FALSE, outcome |-> "500"]
               /\ UNCHANGED <<kb_disk, kb_files, kb_index>>
          ELSE LET path == Val(kb_index[id])
                   existed == path \in kb_disk
               IN  \/ /\ kb_disk' = kb_disk \ {path}
                      /\ kb_files' = DelEntry(kb_files, id)
                      /\ kb_index' = DelEntry(kb_index, id)
                      /\ kb_last' = [op |-> "delete", id |-> id, path |-> path,
                                     existed |-> existed, outcome |-> "success"]
                   \/ \* file_path.unlink() raises
                      /\ existed
                      /\ kb_last' = [op |-> "delete", id |-> id, path |-> path,
                                     existed |-> existed, outcome |-> "500"]
                      /\ UNCHANGED <<kb_disk, kb_files, kb_index>>
       /\ UNCHANGED notKb

\* A file of the directory is removed outside the service; delete_file
\* allows for it with `if file_path.exists()`.
KbFileRemoved ==
    /\ \E path \in kb_disk : kb_disk' = kb_disk \ {path}
    /\ kb_last' = [op |-> "removed", id |-> "none", path |-> "none",
                   existed |-> FALSE, outcome |-> "none"]
    /\ UNCHANGED <<kb_files, kb_index>>
    /\ UNCHANGED notKb

KbNext ==
    \/ KbUploadFile
    \/ KbDeleteFile
    \/ KbFileRemoved

InitKb ==
    /\ KbIdle
    /\ IdleButKb

SpecKb == InitKb /\ [][KbNext]_vars

\* C19: after a successful DELETE /api/files/{id} the file that the summary
\* index held for the id is not on disk, and the id is in neither the
\* processor map nor the summary index.
C19_DeleteRemovesFileAndEntry ==
    (kb_last.op = "delete" /\ kb_last.outcome = "success") =>
        /\ kb_last.path \notin kb_disk
        /\ kb_files[kb_last.id] = None
        /\ kb_index[kb_last.id] = None

C19_Witness ==
    /\ kb_last.op = "delete" /\ kb_last.outcome = "success"
    /\ kb_last.id = "id_b" /\ kb_last.existed
    /\ kb_disk = {"sales.xlsx"}
    /\ kb_files["id_a"] = Some("sales.xlsx")
    /\ kb_index["id_a"] = Some("sales.xlsx")

(***************************************************************************)
(* analysis_websocket (W601/app.py)                                        *)
(***************************************************************************)

\* Number of analyze requests a client sends over one connection.
MaxRequests == 3

\* The `query` of an analyze message: a question, an empty string, or a JSON
\* null (data.get("query", "") then yields None).
WsQueries == {"question", "empty", "null"}

\* What analyze() hands back: a response whose data json.dumps can encode, or
\* one that holds values it cannot encode (the Timestamp cells of a table
\* made with to_dict(orient='records')).
WsResults == {"encodable", "not_encodable"}

\* One message on the wire.
WsMessage(r, type, step) == [req |-> r, type |-> type, step |-> step]

\* The steps/types of the messages sent for request r, in sending order.
WsSentFor(r) ==
    LET mine == SelectSeq(ws_sent, LAMBDA m : m.req = r)
    IN  [i \in DOMAIN mine |-> IF mine[i].type = "progress" THEN mine[i].step
                                 ELSE mine[i].type]

\* `data = await websocket.receive_json()` and the dispatch on its type.  A
\* receive on a connection whose peer is gone raises WebSocketDisconnect.
WsReceive ==
    /\ ws_pc = "receive"
    /\ IF ws_client = "gone"
       THEN /\ ws_pc' = "closed"
            /\ UNCHANGED <<ws_req, ws_cur>>
       ELSE /\ ws_req < MaxRequests
            /\ \E q \in WsQueries :
                  ws_cur' = Some([query |-> q, result |-> "none"])
            /\ ws_req' = ws_req + 1
            /\ ws_pc' = "send_parsing"
    /\ UNCHANGED <<ws_client, ws_sent>>
    /\ UNCHANGED notWs

\* send_json of the "parsing" progress message.
WsSendParsing ==
    /\ ws_pc = "send_parsing"
    /\ IF ws_client = "gone"
       THEN ws_pc' = "closed" /\ UNCHANGED ws_sent
       ELSE /\ ws_sent' = Append(ws_sent, WsMessage(ws_req, "progress", "parsing"))
            /\ ws_pc' = "analyze"
    /\ UNCHANGED <<ws_client, ws_req, ws_cur>>
    /\ UNCHANGED notWs

\* AnalysisRequest(query=query, file_id=file_id) and `await analyze(request)`.
\* The request model rejects a query that is not a string; analyze() itself
\* turns every failure into an unsuccessful response.
WsAnalyze ==
    /\ ws_pc = "analyze"
    /\ IF Val(ws_cur).query = "null"
       THEN ws_pc' = "except" /\ UNCHANGED ws_cur
       ELSE /\ \E res \in (IF Val(ws_cur).query = "empty" THEN {"encodable"} ELSE WsResults) :
                  ws_cur' = Some([Val(ws_cur) EXCEPT !.result = res])
            /\ ws_pc' = "send_complete"
    /\ UNCHANGED <<ws_client, ws_req, ws_sent>>
    /\ UNCHANGED notWs

\* send_json of the "complete" progress message.
WsSendComplete ==
    /\ ws_pc = "send_complete"
    /\ IF ws_client = "gone"
       THEN ws_pc' = "closed" /\ UNCHANGED ws_sent
       ELSE /\ ws_sent' = Append(ws_sent, WsMessage(ws_req, "progress", "complete"))
            /\ ws_pc' = "send_result"
    /\ UNCHANGED <<ws_client, ws_req, ws_cur>>
    /\ UNCHANGED notWs

\* send_json({"type": "result", "data": result.dict()}): json.dumps raises
\* TypeError on data it cannot encode; otherwise the loop goes on.
WsSendResult ==
    /\ ws_pc = "send_result"
    /\ IF ws_client = "gone"
       THEN ws_pc' = "closed" /\ UNCHANGED ws_sent
       ELSE IF Val(ws_cur).result = "not_encodable"
       THEN ws_pc' = "except" /\ UNCHANGED ws_sent
       ELSE /\ ws_sent' = Append(ws_sent, WsMessage(ws_req, "result", "none"))
            /\ ws_pc' = "receive"
    /\ UNCHANGED <<ws_client, ws_req, ws_cur>>
    /\ UNCHANGED notWs

\* `except Exception`: the error message is sent and the handler ends.
WsExcept ==
    /\ ws_pc = "except"
    /\ IF ws_client = "gone"
       THEN UNCHANGED ws_sent
       ELSE ws_sent' = Append(ws_sent, WsMessage(ws_req, "error", "none"))
    /\ ws_pc' = "closed"
    /\ UNCHANGED <<ws_client, ws_req, ws_cur>>
    /\ UNCHANGED notWs

\* The client goes away.
WsClientGone ==
    /\ ws_client = "connected"
    /\ ws_pc # "closed"
    /\ ws_client' = "gone"
    /\ UNCHANGED <<ws_pc, ws_req, ws_cur, ws_sent>>
    /\ UNCHANGED notWs

WsNext ==
    \/ WsReceive
    \/ WsSendParsing
    \/ WsAnalyze
    \/ WsSendComplete
    \/ WsSendResult
    \/ WsExcept
    \/ WsClientGone

InitWs ==
    /\ WsIdle
    /\ IdleButWs

SpecWs == InitWs /\ [][WsNext]_vars

\* C20 as stated: for every analyze request received from a client that
\* stays connected, once the handler is done with the request it has sent
\* progress "parsing", then progress "complete", then the result message.
C20_Original ==
    \A r \in 1..ws_req :
        (ws_client = "connected" /\ (r < ws_req \/ ws_pc \in {"receive", "closed"}))
            => WsSentFor(r) = <<"parsing", "complete", "result">>

(***************************************************************************)
(* WebSocketVoiceSession and VoiceHandler (W601/voice_handler.py)          *)
(***************************************************************************)

\* Number of messages one voice session handles in the model.
MaxMessages == 5

\* The decoded payloads of audio_data messages: no bytes, or one byte.
AudioChunks == {<<>>, <<1>>, <<2>>}

\* How a transcription service answers: with text, with an empty text, or
\* with a failure (None).
WhisperOutcomes == {"text", "empty", "error"}
LocalOutcomes == {"text", "unknown", "error"}

\* A transcription: the empty string, or the text of the given audio.
EmptyText == [empty |-> TRUE, audio |-> <<>>]
TextOf(audio) == [empty |-> FALSE, audio |-> audio]

RECURSIVE Concat(_)
\* The bytes of a sequence of chunks.
Concat(chunks) == IF chunks = <<>> THEN <<>> ELSE Head(chunks) \o Concat(Tail(chunks))

\* transcribe_buffer(): "" for an empty buffer; else the hosted service if it
\* is configured and gives text, else the local recognizer if it exists and
\* gives text, else "".
TranscribeBuffer(buffer, cfg, whisper, local) ==
    IF buffer = <<>> THEN EmptyText
    ELSE IF cfg.openai /\ whisper = "text" THEN TextOf(buffer)
    ELSE IF cfg.local /\ local = "text" THEN TextOf(buffer)
    ELSE EmptyText

ShouldForwardAlways(text) == TRUE

\* `if text and self.on_transcription` (the session is built with a callback)
ShouldForward(text) == ~text.empty

AcceptsAudioAlways(recording) == TRUE

\* handle_audio_data: `if not self.is_recording: return`
AcceptsAudio(recording) == recording

\* A session is created, on a host with some of the transcription paths.
VsInit ==
    /\ vs_cfg \in [openai : BOOLEAN, local : BOOLEAN]
    /\ vs_recording = FALSE /\ vs_buffer = <<>> /\ vs_since = <<>> /\ vs_n = 0
    /\ vs_forwarded = <<>>
    /\ vs_last = [type |-> "none", was_recording |-> FALSE,
                  text |-> EmptyText, forwarded |-> FALSE]

\* handle_message for {"type": "start_recording"}
VsStartRecording ==
    /\ vs_n < MaxMessages
    /\ vs_recording' = TRUE
    /\ vs_buffer' = <<>>
    /\ vs_since' = <<>>
    /\ vs_n' = vs_n + 1
    /\ vs_last' = [type |-> "start_recording", was_recording |-> vs_recording,
                   text |-> EmptyText, forwarded |-> FALSE]
    /\ UNCHANGED <<vs_cfg, vs_forwarded>>
    /\ UNCHANGED notVs

\* handle_message for {"type": "stop_recording"}: stop_recording(), then the
\* callback.
VsStopRecording ==
    /\ vs_n < MaxMessages
    /\ \E w \in WhisperOutcomes : \E l \in LocalOutcomes :
          LET text == TranscribeBuffer(vs_buffer, vs_cfg, w, l)
          IN  /\ vs_forwarded' = IF ShouldForward(text) THEN Append(vs_forwarded, text)
                                 ELSE vs_forwarded
              /\ vs_last' = [type |-> "stop_recording", was_recording |-> vs_recording,
                             text |-> text, forwarded |-> ShouldForward(text)]
    /\ vs_recording' = FALSE
    /\ vs_buffer' = <<>>
    /\ vs_n' = vs_n + 1
    /\ UNCHANGED <<vs_cfg, vs_since>>
    /\ UNCHANGED notVs

\* handle_message for {"type": "audio_data", "audio": ...}; a payload that
\* base64.b64decode rejects ends in the error reply and stores nothing.
VsAudioData ==
    /\ vs_n < MaxMessages
    /\ \E payload \in [valid : {TRUE}, bytes : AudioChunks]
                         \cup {[valid |-> FALSE, bytes |-> <<>>]} :
          /\ vs_buffer' = IF AcceptsAudio(vs_recording) /\ payload.valid
                           THEN vs_buffer \o payload.bytes
                           ELSE vs_buffer
          /\ vs_since' = IF vs_recording /\ payload.valid
                          THEN Append(vs_since, payload.bytes)
                          ELSE vs_since
    /\ vs_n' = vs_n + 1
    /\ vs_last' = [type |-> "audio_data", was_recording |-> vs_recording,
                   text |-> EmptyText, forwarded |-> FALSE]
    /\ UNCHANGED <<vs_cfg, vs_recording, vs_forwarded>>
    /\ UNCHANGED notVs

\* handle_message for {"type": "ping"}
VsPing ==
    /\ vs_n < MaxMessages
    /\ vs_n' = vs_n + 1
    /\ vs_last' = [type |-> "ping", was_recording |-> vs_recording,
                   text |-> EmptyText, forwarded |-> FALSE]
    /\ UNCHANGED <<vs_cfg, vs_recording, vs_buffer, vs_since, vs_forwarded>>
    /\ UNCHANGED notVs

VsNext ==
    \/ VsStartRecording
    \/ VsStopRecording
    \/ VsAudioData
    \/ VsPing

InitVoice ==
    /\ VsInit
    /\ IdleButVs

SpecVoice == InitVoice /\ [][VsNext]_vars

MaxFed == 3

\* New ReviewStats() and the reviews to feed, listed in some order.
StatsInit ==
    /\ fr_pc = "add_review"
    /\ \E s \in SeqsUpTo(ReviewPool, MaxFed) : fr_args = Some([reviews |-> s])
    /\ fr_locals = Some([stats |-> EmptyStats, fed |-> {}])
    /\ fr_ret = None

\* stats.add_review(review) for any review not fed yet.
StatsAddReview ==
    /\ fr_pc = "add_review"
    /\ \E i \in DOMAIN Val(fr_args).reviews \ Val(fr_locals).fed :
          fr_locals' = Some([stats |-> AddReview(Val(fr_locals).stats, Val(fr_args).reviews[i]),
                             fed |-> Val(fr_locals).fed \cup {i}])
    /\ UNCHANGED <<fr_pc, fr_args, fr_ret>>
    /\ UNCHANGED notFr

StatsNext == StatsAddReview

InitStats ==
    /\ StatsInit
    /\ IdleButFr

SpecStats == InitStats /\ [][StatsNext]_vars

\* C22: whatever the order in which the reviews of a multiset are fed into
\* add_review, the final average_rating, rating_distribution,
\* verified_purchase_count and date_range are the same: they are the values
\* the multiset determines (sum of ratings over count, count per rating,
\* number of verified reviews, earliest and latest date).
C22_OrderIndependent ==
    LET rs == Val(fr_args).reviews
        st == Val(fr_locals).stats
        fed == Val(fr_locals).fed
        Ratings == {rs[i].rating : i \in fed}
        Count(k) == Cardinality({i \in fed : rs[i].rating = k})
    IN  /\ st.total_reviews = Cardinality(fed)
        /\ DOMAIN st.rating_distribution = Ratings
        /\ \A k \in Ratings : st.rating_distribution[k] = Count(k)
        /\ fed # {} =>
              /\ st.average_rating[2] = Cardinality(fed)
              /\ st.average_rating[1] = DistTotal([k \in Ratings |-> Count(k)], Ratings)
              /\ st.date_range # None
              /\ \E i \in fed : rs[i].date = Val(st.date_range).earliest
              /\ \E i \in fed : rs[i].date = Val(st.date_range).latest
              /\ \A i \in fed : /\ Val(st.date_range).earliest <= rs[i].date
                                /\ rs[i].date <= Val(st.date_range).latest
        /\ fed = {} => st.date_range = None
        /\ st.verified_purchase_count = Cardinality({i \in fed : rs[i].verified_purchase})

C22_Witness ==
    /\ fr_pc = "add_review"
    /\ Len(Val(fr_args).reviews) = 3
    /\ Val(fr_locals).fed = {1, 2, 3}
    /\ Val(fr_locals).stats.total_reviews = 3
    /\ Val(fr_locals).stats.verified_purchase_count = 2
    /\ Val(fr_locals).stats.average_rating = <<13, 3>>
    /\ Val(Val(fr_locals).stats.date_range).earliest # Val(Val(fr_locals).stats.date_range).latest

(***************************************************************************)
(* RequestsAmazonScraper.get_product_reviews_paginated                     *)
(* (W201b-web_crawler/src/scraper/requests_scraper.py)                     *)
(***************************************************************************)

\* Largest max_pages a caller passes in the model.
MaxPageArg == 3

\* Largest number of reviews on one review page in the model.
MaxOnPage == 2

\* What requesting one review page can give: _get_page returns None, the
\* page title looks like a blocking page, the handling of the page raises,
\* or the page holds some reviews and a "next" anchor that is absent, carries
\* the class a-disabled, or is enabled.
PageOutcomes ==
    {[kind |-> k, reviews |-> 0, next |-> "absent"] : k \in {"failed", "blocked", "raised"}}
        \cup [kind : {"page"}, reviews : 0..MaxOnPage,
              next : {"absent", "disabled", "enabled"}]

NoNextPageUnlessAbsent(next) == next = "absent"

\* `if not next_page_link or 'a-disabled' in next_page_link.get('class', [])`
NoNextPage(next) == next \in {"absent", "disabled"}

\* get_product_reviews_paginated(product, max_reviews, max_pages) is about to
\* be called.
PaginateInit ==
    /\ fr_pc = "page_loop"
    /\ \E mp \in 1..MaxPageArg : \E mr \in {1, 3} :
          fr_args = Some([max_reviews |-> mr, max_pages |-> mp])
    /\ fr_locals = Some([page_num |-> 1, reviews |-> 0, requested |-> <<>>])
    /\ fr_ret = None

\* One pass of `for page_num in range(1, max_pages + 1)`, or the return after
\* the loop.  `requested` keeps what each requested page gave.
PaginateStep ==
    /\ fr_pc = "page_loop"
    /\ LET a == Val(fr_args)
           l == Val(fr_locals)
           Return == /\ fr_pc' = "returned"
                     /\ fr_ret' = Some(Min(l.reviews, a.max_reviews))
                     /\ UNCHANGED fr_locals
       IN  IF l.page_num > a.max_pages \/ l.reviews >= a.max_reviews
           THEN Return
           ELSE \E o \in PageOutcomes :
                  LET got == IF o.kind = "page"
                             THEN Min(o.reviews, a.max_reviews - l.reviews) ELSE 0
                      stop == \/ o.kind \in {"blocked", "raised"}
                              \/ o.kind = "page" /\ got = 0
                              \/ o.kind = "page" /\ l.page_num < a.max_pages
                                                 /\ NoNextPage(o.next)
                      after == [page_num |-> l.page_num + 1,
                                reviews |-> l.reviews + got,
                                requested |-> Append(l.requested, o)]
                  IN  /\ fr_locals' = Some(after)
                      /\ IF stop
                         THEN /\ fr_pc' = "returned"
                              /\ fr_ret' = Some(Min(after.reviews, a.max_reviews))
                         ELSE UNCHANGED <<fr_pc, fr_ret>>
    /\ UNCHANGED fr_args
    /\ UNCHANGED notFr

PaginateNext == PaginateStep

InitPaginate ==
    /\ PaginateInit
    /\ IdleButFr

SpecPaginate == InitPaginate /\ [][PaginateNext]_vars

\* C23: a review page that yields zero reviews, or whose "next" control is
\* absent or disabled, is the last page requested.
C23_StopsAtLastPage ==
    LET req == Val(fr_locals).requested
    IN  \A i \in DOMAIN req :
           (req[i].kind = "page"
              /\ (req[i].reviews = 0 \/ req[i].next \in {"absent", "disabled"}))
           => /\ i = Len(req)
              /\ fr_pc = "returned" \/ Val(fr_locals).page_num > Val(fr_args).max_pages

C23_Witness ==
    /\ fr_pc = "returned"
    /\ Val(fr_args).max_pages = 3
    /\ Len(Val(fr_locals).requested) = 2
    /\ Val(fr_locals).requested[1] = [kind |-> "page", reviews |-> 1, next |-> "enabled"]
    /\ Val(fr_locals).requested[2] = [kind |-> "page", reviews |-> 1, next |-> "disabled"]
    /\ Val(fr_ret) = 2

\* ---------------------------------------------------------------------------
\* Several invocations of scrape_reviews on one scraper instance
\* ---------------------------------------------------------------------------

\* How many times the caller invokes scrape_reviews on the same instance.
MaxRuns == 2

\* self.errors is created in __init__ and the instance is then used MaxRuns
\* times.
InitScrapeRuns ==
    /\ ScrInitFor(MaxRuns)
    /\ IdleButScr

SpecScrapeRuns == InitScrapeRuns /\ [][ScrNext]_vars

\* C25 as stated: the errors list of the ScrapingResult an invocation returns
\* holds only errors recorded during that invocation, never errors of an
\* earlier invocation on the same scraper instance.
C25_Original ==
    scr_result # None =>
        \A i \in DOMAIN Val(scr_result).errors :
            Val(scr_result).errors[i].run = scr_run

\* C26 as stated, for the kernel execution path: the pickled table created
\* while serving one request is deleted by the time the request finishes,
\* including when processing fails.
C26_Original ==
    ex_pc = "returned" => ex_tmp # "exists"

\* C27 as stated: after any sequence of add_documents calls, clear_database
\* calls and restarts that reload the persisted index, get_document_count()
\* equals the number of chunks held in the vector index, and it is 0 exactly
\* when no index is loaded.
C27_Original ==
    /\ rag_count = (IF rag_vectorstore = None THEN 0 ELSE Val(rag_vectorstore))
    /\ (rag_count = 0 <=> rag_vectorstore = None)

(***************************************************************************)
(* PDFRAGApp.conversation_mode (W301-pdf-rag/main.py)                      *)
(***************************************************************************)

\* Inputs read in conversation mode, over all visits.
MaxTurns == 9

\* `if len(self.chat_history) > 12`
HistoryCap == 12

\* The two messages an answered question appends.
Exchange(turn) ==
    <<[role |-> "user", turn |-> turn], [role |-> "assistant", turn |-> turn]>>

TrimHistoryNever(history) == history

\* self.chat_history[-12:] when the history is longer than 12 messages
TrimHistory(history) ==
    IF Len(history) > HistoryCap
    THEN SubSeq(history, Len(history) - HistoryCap + 1, Len(history))
    ELSE history

\* The main menu starts conversation mode; self.chat_history is whatever the
\* previous visit left.
CvEnter ==
    /\ cv_pc = "menu"
    /\ cv_n < MaxTurns
    /\ cv_pc' = "conversation"
    /\ UNCHANGED <<cv_history, cv_n, cv_done, cv_handed>>
    /\ UNCHANGED notCv

\* 'exit': the loop is left.
CvExit ==
    /\ cv_pc = "conversation"
    /\ cv_pc' = "menu"
    /\ cv_n' = cv_n + 1
    /\ UNCHANGED <<cv_history, cv_done, cv_handed>>
    /\ UNCHANGED notCv

\* 'clear': the history is emptied.
CvClear ==
    /\ cv_pc = "conversation"
    /\ cv_n < MaxTurns
    /\ cv_history' = <<>>
    /\ cv_done' = <<>>
    /\ cv_n' = cv_n + 1
    /\ UNCHANGED <<cv_pc, cv_handed>>
    /\ UNCHANGED notCv

\* An empty line: the loop continues.
CvBlank ==
    /\ cv_pc = "conversation"
    /\ cv_n < MaxTurns
    /\ cv_n' = cv_n + 1
    /\ UNCHANGED <<cv_pc, cv_history, cv_done, cv_handed>>
    /\ UNCHANGED notCv

\* A question: pipeline.query is called with self.chat_history.  When it
\* returns an answer the two messages are appended and the history trimmed;
\* when it raises, or the reply has no 'answer', the handler prints the
\* failure and the history is as before.
CvQuestion ==
    /\ cv_pc = "conversation"
    /\ cv_n < MaxTurns
    /\ cv_n' = cv_n + 1
    /\ cv_handed' = Some(cv_history)
    /\ \/ /\ cv_history' = TrimHistory(cv_history \o Exchange(cv_n + 1))
          /\ cv_done' = Append(cv_done, cv_n + 1)
       \/ UNCHANGED <<cv_history, cv_done>>
    /\ UNCHANGED cv_pc
    /\ UNCHANGED notCv

CvNext ==
    \/ CvEnter
    \/ CvExit
    \/ CvClear
    \/ CvBlank
    \/ CvQuestion

InitConversation ==
    /\ CvIdle
    /\ IdleButCv

SpecConversation == InitConversation /\ [][CvNext]_vars

RECURSIVE ExchangesOf(_)
\* The messages of a sequence of exchanges, oldest first.
ExchangesOf(turns) ==
    IF turns = <<>> THEN <<>>
    ELSE Exchange(Head(turns)) \o ExchangesOf(Tail(turns))

\* The last HistoryCap / 2 of a sequence of exchanges.
LastExchanges(turns) ==
    IF Len(turns) > HistoryCap \div 2
    THEN SubSeq(turns, Len(turns) - HistoryCap \div 2 + 1, Len(turns))
    ELSE turns

\* C29: in conversation mode, after any sequence of questions, failed queries
\* and 'clear' commands, the chat history handed to the pipeline holds at
\* most the last 6 exchanges (12 messages): it is made of the last exchanges
\* answered since the most recent 'clear', at most 6 of them.
C29_HistoryHoldsLastSixExchanges ==
    /\ Len(cv_history) <= HistoryCap
    /\ cv_history = ExchangesOf(LastExchanges(cv_done))
    /\ cv_handed # None =>
          /\ Len(Val(cv_handed)) <= HistoryCap
          /\ \A i \in DOMAIN Val(cv_handed) : Val(cv_handed)[i].turn \in 1..cv_n

\* After a first input that added nothing (a 'clear', an empty line or a
\* failed query), seven questions were answered and an eighth was asked: the
\* pipeline was handed 12 messages, the oldest of them from the second of the
\* seven exchanges.
C29_Witness ==
    /\ Len(cv_done) >= 7
    /\ cv_done[1] > 1
    /\ cv_handed # None
    /\ Len(Val(cv_handed)) = HistoryCap
    /\ Val(cv_handed)[1].turn = cv_done[2]

(***************************************************************************)
(* Serialisation of analysis_result on the two execution paths            *)
(* (W601/code_executor.py)                                                 *)
(***************************************************************************)

\* Largest row count, length or numeric value of an analysis_result.
MaxSize == 2

\* head(100) and tolist()[:100]
HeadLimit == 100

\* The classes of the values a script assigns to analysis_result.
ValueClasses ==
    {"DataFrame", "Series", "int", "bool", "float", "np.float64", "np.float32",
     "np.int64", "ndarray", "dict", "str", "NoneType"}

\* The classes each class is an instance of, for isinstance: bool derives
\* from int, numpy.float64 from both float and numpy.floating, numpy.int64
\* and numpy.float32 from the numpy scalar types only.
Bases(cls) ==
    CASE cls = "bool" -> {"bool", "int"}
      [] cls = "np.float64" -> {"np.float64", "float", "np.floating"}
      [] cls = "np.float32" -> {"np.float32", "np.floating"}
      [] cls = "np.int64" -> {"np.int64", "np.integer"}
      [] OTHER -> {cls}

IsInstance(v, classes) == Bases(v.cls) \cap classes # {}

\* The values: a class and a size (rows, length or the number itself).
AnalysisResults == [cls : ValueClasses, n : 0..MaxSize]

\* The harvesting snippet of JupyterCodeExecutor.execute: what it stores
\* under 'analysis_result'.
KernelSerialize(ar) ==
    IF IsInstance(ar, {"DataFrame"})
    THEN [type |-> "dataframe", rows |-> Min(ar.n, HeadLimit)]
    ELSE IF IsInstance(ar, {"Series"})
    THEN [type |-> "series", rows |-> Min(ar.n, HeadLimit)]
    ELSE IF IsInstance(ar, {"int", "float"})
    THEN [type |-> "number", value |-> ar.n]
    ELSE [type |-> "other", value |-> ar]

\* SimpleCodeExecutor._serialize_result
SerializeResult(result) ==
    IF IsInstance(result, {"DataFrame"})
    THEN [type |-> "dataframe", rows |-> Min(result.n, HeadLimit)]
    ELSE IF IsInstance(result, {"Series"})
    THEN [type |-> "series", rows |-> Min(result.n, HeadLimit)]
    ELSE IF IsInstance(result, {"np.integer", "np.floating"})
    THEN [type |-> "number", value |-> result.n]
    ELSE IF IsInstance(result, {"ndarray"})
    THEN [type |-> "array", rows |-> Min(result.n, HeadLimit)]
    ELSE IF IsInstance(result, {"dict"})
    THEN [type |-> "dict", rows |-> result.n]
    ELSE [type |-> "other", value |-> result]

\* A script has left a value in analysis_result; neither path has reported
\* it yet.
SerInit ==
    /\ fr_pc = "serialize"
    /\ \E ar \in AnalysisResults : fr_args = Some([analysis_result |-> ar])
    /\ fr_locals = Some([kernel |-> None, fallback |-> None])
    /\ fr_ret = None

\* The kernel path harvests the value.
SerKernel ==
    /\ fr_pc = "serialize"
    /\ Val(fr_locals).kernel = None
    /\ fr_locals' = Some([Val(fr_locals) EXCEPT
                             !.kernel = Some(KernelSerialize(Val(fr_args).analysis_result))])
    /\ UNCHANGED <<fr_pc, fr_args, fr_ret>>
    /\ UNCHANGED notFr

\* The fallback evaluator serialises the value.
SerFallback ==
    /\ fr_pc = "serialize"
    /\ Val(fr_locals).fallback = None
    /\ fr_locals' = Some([Val(fr_locals) EXCEPT
                             !.fallback = Some(SerializeResult(Val(fr_args).analysis_result))])
    /\ UNCHANGED <<fr_pc, fr_args, fr_ret>>
    /\ UNCHANGED notFr

SerNext ==
    \/ SerKernel
    \/ SerFallback

InitSerialize ==
    /\ SerInit
    /\ IdleButFr

SpecSerialize == InitSerialize /\ [][SerNext]_vars

\* C30 as stated: for any value of analysis_result (dataframe, series, scalar
\* number, anything else) the fallback evaluator and the kernel path report
\* the same result type.
C30_Original ==
    (fr_pc = "serialize" /\ Val(fr_locals).kernel # None /\ Val(fr_locals).fallback # None)
        => Val(Val(fr_locals).kernel).type = Val(Val(fr_locals).fallback).type

====
